---------------------------- MODULE Spec2Model ----------------------------
(***************************************************************************)
(* Graphverb: spectral analysis -> spectral graph -> community clustering  *)
(* -> per-cluster reverb bank, in its synchronous (GraphVerb) and          *)
(* asynchronous (Graphverb, worker thread) variants.                       *)
(*                                                                         *)
(* Numbers.  Samples, magnitudes and frequencies are integers (fixed-point *)
(* units of the floats in the source).  Means and normalised energies are  *)
(* exact rationals <<num, den>> in lowest terms.  std::log / std::log10    *)
(* are fixed-point (x100) table lookups.                                  *)
(* Vectors are sequences: element i of the source is element i+1 here.     *)
(* Cluster ids keep the source's values 0..k-1.                            *)
(***************************************************************************)
EXTENDS Integers, Sequences, FiniteSets, TLC

(***************************************************************************)
(* Bounds of the exploration.                                              *)
(***************************************************************************)
\* longest node list given to clusterNodes on its own
MaxBins == 5
\* largest k given to clusterNodes on its own
MaxK == 3

\* magnitudes of the nodes given to clusterNodes on its own
Magnitudes == 0..3

\* longest input given to one pushSamples call on the analyzer on its own
MaxPush == 5
\* samples pushed between two resets of the analyzer on its own
MaxPushed == 7
\* pushSamples calls between two resets of the analyzer on its own
MaxPushes == 4
\* values of those samples
SampleValues == {0, 1}

\* longest magnitude vector given to buildGraph on its own
MaxNodes == 5
\* the magnitudes in it
GraphMagnitudes == 0..2
\* the sample rate given to buildGraph on its own (a multiple of fftSize)
GraphSampleRates == {8}

\* processBlock calls the host makes in one run
MaxBlocks == 2
\* prepareToPlay calls the host makes in one run
MaxPrepares == 2
\* number of clusters: the source's numClusters is 12, explored here with
\* fewer clusters
NumClusters == 3

\* default of the maxIterations parameter
DefaultMaxIterations == 100
\* the analyzer's transform size and hop: spectralAnalyzer(10, 512) in the
\* source, i.e. 1024 and 512; explored here with the 4-point transform
FftSize == 4
HopSize == 2

(***************************************************************************)
(* Arithmetic helpers.                                                     *)
(***************************************************************************)
Abs(x) == IF x < 0 THEN -x ELSE x

Min(a, b) == IF a < b THEN a ELSE b

RECURSIVE GCD(_, _)
GCD(a, b) == IF b = 0 THEN a ELSE GCD(b, a % b)

\* the rational n/d (d > 0, n >= 0) in lowest terms
Rat(n, d) == LET g == GCD(n, d) IN <<n \div g, d \div g>>

RatAdd(p, q) == Rat(p[1] * q[2] + q[1] * p[2], p[2] * q[2])

RatDiv(p, q) == Rat(p[1] * q[2], p[2] * q[1])

RatDivInt(p, c) == Rat(p[1], p[2] * c)

RatPos(p) == p[1] > 0

RECURSIVE SeqSum(_)
SeqSum(s) == IF s = <<>> THEN 0 ELSE Head(s) + SeqSum(Tail(s))

RECURSIVE RatSum(_)
RatSum(s) == IF s = <<>> THEN <<0, 1>> ELSE RatAdd(Head(s), RatSum(Tail(s)))

\* 100 * ln(x) for x = 1..64
LnTab ==
  <<0, 69, 110, 139, 161, 179, 195, 208, 220, 230, 240, 248, 256, 264,
    271, 277, 283, 289, 294, 300, 304, 309, 314, 318, 322, 326, 330, 333,
    337, 340, 343, 347, 350, 353, 356, 358, 361, 364, 366, 369, 371, 374,
    376, 378, 381, 383, 385, 387, 389, 391, 393, 395, 397, 399, 401, 403,
    404, 406, 408, 409, 411, 413, 414, 416>>

RECURSIVE LnInt(_)
LnInt(x) == IF x <= 64 THEN LnTab[x] ELSE 69 + LnInt(x \div 2)

\* 100 * std::log(p + 1e-6f) of a rational p >= 0; ln(1e-6) = -13.82
LogEps(p) == IF p[1] = 0 THEN -1382 ELSE LnInt(p[1]) - LnInt(p[2])

\* 100 * 20 * std::log10(p + 1e-6f); 20 / ln(10) = 8.686
DbEps(p) == (8686 * LogEps(p)) \div 1000

\* floor of the square root
RECURSIVE ISqrtFrom(_, _)
ISqrtFrom(x, r) == IF (r + 1) * (r + 1) > x THEN r ELSE ISqrtFrom(x, r + 1)

ISqrt(x) == ISqrtFrom(x, 0)

\* 1000 * std::exp(-d) for an integer d >= 0
ExpNeg(d) ==
  IF d >= 8 THEN 0 ELSE <<1000, 368, 135, 50, 18, 7, 2, 1>>[d + 1]

Zeros(n) == [i \in 1..n |-> 0]

(***************************************************************************)
(* State.                                                                  *)
(***************************************************************************)
VARIABLES
  \* SpectralAnalyzer
  fifoBuffer,             \* fifoBuffer (fftSize samples)
  fifoFill,               \* fifoFill
  frequencyDomainBuffer,  \* frequencyDomainBuffer (2 * fftSize values)
  latestMagnitudes,       \* latestMagnitudes
  hopSize,                \* hopSize
  framesDone,             \* history: processFrame calls since the reset
  \* history of the pushSamples / reset calls made on the analyzer on its own
  pushed,                 \* samples pushed since the reset
  pushes,                 \* pushSamples calls since the reset
  hopOnly,                \* every one of them pushed exactly hopSize samples
  anPc,                   \* the last call: "new", "push", "reset"
  dirtyReset,             \* the last reset() found every member in use
  rebuilt,                \* the last buildGraph on its own found other contents
  stream,                 \* the samples pushed on its own since the reset
  lastFrames,             \* the frames the last pushSamples on its own completed
  mixIn,                  \* the arguments of the mix on its own
  mixOut,                 \* the sample before tanh and the sample written
  mixPc,                  \* "entry" / "mixed"
  bankBefore,             \* the bank before the last update on its own
  upArgs,                 \* the arguments of the last update on its own
  bankPc,                 \* the bank on its own: "new", "updated", "processed"
  loopIn,                 \* the per-cluster loop on its own: what it reads
  dryBuffer,              \* dryBuffer
  wetBuffer,              \* wetBuffer
  tempBuffer,             \* tempBuffer
  loopI,                  \* the loop's i
  fedIn,                  \* history: the buffer each unit was handed
  processedOut,           \* history: the buffer each unit left
  loopPc,                 \* "idle", "entry", "loop", "done"
  \* SpectralGraph
  nodes,          \* SpectralGraph::nodes
  edges,          \* SpectralGraph::edges
  \* CommunityClustering::clusterNodes, one call
  kArg,           \* parameter k
  maxIterArg,     \* parameter maxIterations
  centroids,      \* centroids
  assignments,    \* assignments
  changed,        \* changed
  iterations,     \* iterations
  clPc,           \* position: "idle", "entry", "loop", "returned"
  reseeded,       \* history: an empty cluster was reseeded in this call
  \* the processor (Graphverb: asynchronous, GraphVerb: synchronous)
  mode,                   \* "async", "sync"; "none" when no processor exists
  sampleRate,             \* the stream's sample rate (0 before prepareToPlay)
  procState,              \* "alive", "destroyed", "terminated" (std::terminate)
  hostPc,                 \* position of the host's current call
  analysisInputQueue,     \* analysisInputQueue: frames [samples, epoch]
  analysisThread,         \* analysisThread: "none" or "joinable"
  threadShouldExit,       \* threadShouldExit
  wPc,                    \* position of the worker lambda; "none": no thread
  inputBuffer,            \* the worker's inputBuffer
  newEnergies,            \* the worker's newEnergies
  latestClusterEnergies,  \* latestClusterEnergies (the shared slot)
  energyMutex,            \* energyMutex: "free", "host", "worker"
  queueMutex,             \* analysisInputQueue.mutex: "free", "host", "worker"
  clusterEnergies,        \* clusterEnergies
  copyIdx,                \* elements copied by clusterEnergies = latest...
  communityReverbs,       \* communityReverbs: the units (see NewReverb)
  uiEnergies,             \* ClusterEnergyView::timerCallback: energies
  \* history
  epoch,          \* prepareToPlay calls so far
  blocks,         \* processBlock calls so far
  stores,         \* stores into the slot so far
  analyzed,       \* numbers of the frames the worker analyzed, in order
  stored,         \* numbers of the frames whose energies were stored, in order
  latestStamp,    \* number of the store that wrote the slot's vector
  latestEpoch,    \* epoch of the frame the slot's vector was computed from
  ceStamps,       \* per element of clusterEnergies: the store it is from
  adopted,        \* store adopted by the current processBlock call, 0: none
  adoptedEpoch,   \* epoch of the frame behind the adopted vector
  lastAdopted,    \* latest publication adopted by any processBlock call
  completeVectors,\* vectors clusterEnergies held when a processBlock ended
  nextUnitId,     \* reverb units created so far
  clobbered,      \* a joinable analysisThread was overwritten or destroyed
  released,       \* a started stream was released and not yet prepared again
  restartEpoch    \* epoch of the latest prepareToPlay that followed a release

updateVars == <<bankBefore, upArgs, bankPc>>

loopVars ==
  <<loopIn, dryBuffer, wetBuffer, tempBuffer, loopI, fedIn, processedOut,
    loopPc>>

mixVars == <<mixIn, mixOut, mixPc, updateVars, loopVars>>

streamVars == <<stream, lastFrames>>

probeVars ==
  <<pushed, pushes, hopOnly, anPc, dirtyReset, rebuilt, mixVars, streamVars>>

analyzerVars ==
  <<fifoBuffer, fifoFill, frequencyDomainBuffer, latestMagnitudes, hopSize,
    framesDone, probeVars>>

clusterVars ==
  <<nodes, kArg, maxIterArg, centroids, assignments, changed, iterations,
    clPc, reseeded>>

lifeVars ==
  <<mode, sampleRate, procState, epoch, released, restartEpoch, clobbered>>

energyVars ==
  <<clusterEnergies, ceStamps, copyIdx, adopted, adoptedEpoch, lastAdopted>>

bankVars == <<communityReverbs, nextUnitId>>

threadVars == <<analysisThread, threadShouldExit, wPc>>

workerVars == <<inputBuffer, newEnergies>>

slotVars ==
  <<latestClusterEnergies, latestStamp, latestEpoch, stores, analyzed, stored>>

pipelineVars ==
  <<analyzerVars, edges, lifeVars, hostPc, blocks, energyVars, bankVars,
    completeVectors, uiEnergies, threadVars, workerVars, slotVars,
    analysisInputQueue, energyMutex, queueMutex>>

vars == <<clusterVars, pipelineVars>>

(***************************************************************************)
(* SpectralGraph::buildGraph, node part.                                   *)
(***************************************************************************)
GraphNode(i, frequency, magnitude) ==
  [index |-> i, frequency |-> frequency, magnitude |-> magnitude]

\* nodes of buildGraph(magnitudes, sampleRate, fftSize), binResolution =
\* sampleRate / fftSize
BuildNodes(magnitudes, binResolution) ==
  [i \in 1..Len(magnitudes) |->
     GraphNode(i - 1, (i - 1) * binResolution, magnitudes[i])]

\* std::lround(a / b) for a >= 0, b > 0
RoundDiv(a, b) == (2 * a + b) \div (2 * b)

GraphEdge(a, b, weight) == [nodeA |-> a, nodeB |-> b, weight |-> weight]

\* neighbor edges weighted by the level of the first node, not the difference
NeighborEdgesByLevel(ns) ==
  [i \in 1..(IF Len(ns) = 0 THEN 0 ELSE Len(ns) - 1) |->
     GraphEdge(i - 1, i, ExpNeg(ns[i].magnitude))]

\* neighbor edges (i, i+1), weight exp(-|magnitude difference|)
NeighborEdges(ns) ==
  [i \in 1..(IF Len(ns) = 0 THEN 0 ELSE Len(ns) - 1) |->
     GraphEdge(i - 1, i,
               ExpNeg(Abs(ns[i].magnitude - ns[i + 1].magnitude)))]

\* harmonic edges from node i (i >= 1) on, harmonics h..4 of node i first
RECURSIVE HarmonicEdges(_, _, _, _)
HarmonicEdges(ns, binResolution, i, h) ==
  IF i >= Len(ns) THEN <<>>
  ELSE IF h > 4 THEN HarmonicEdges(ns, binResolution, i + 1, 2)
  ELSE LET targetFreq  == ns[i + 1].frequency * h
           targetIndex == RoundDiv(targetFreq, binResolution)
           rest        == HarmonicEdges(ns, binResolution, i, h + 1)
       IN  IF targetIndex < Len(ns)
           THEN <<GraphEdge(i, targetIndex,
                            ExpNeg(Abs(ns[targetIndex + 1].frequency
                                       - targetFreq)))>> \o rest
           ELSE rest

\* the harmonic edges emitted before the neighbor edges
HarmonicEdgesFirst(ns, binResolution) ==
  HarmonicEdges(ns, binResolution, 1, 2) \o NeighborEdges(ns)

\* edges of buildGraph: neighbor edges, then harmonic edges
BuildEdges(ns, binResolution) ==
  NeighborEdges(ns) \o HarmonicEdges(ns, binResolution, 1, 2)

Graph(ns, es) == [nodes |-> ns, edges |-> es]

\* a graph that keeps its contents
KeepGraph(g) == g

\* nodes.clear(); edges.clear()
ClearGraph(g) == Graph(<<>>, <<>>)

\* buildGraph(magnitudes, sampleRate, fftSize) on the graph g: clear, then
\* push_back the nodes, then the edges computed from the nodes
buildGraph(g, magnitudes, rate, fftSize) ==
  LET cleared == ClearGraph(g)
      binResolution == rate \div fftSize
      ns == cleared.nodes \o BuildNodes(magnitudes, binResolution)
  IN  Graph(ns, cleared.edges \o BuildEdges(ns, binResolution))

(***************************************************************************)
(* SpectralAnalyzer.  An analyzer value is a record of its buffers.        *)
(***************************************************************************)
\* the Hann window of fftSize points, normalised (fillWindowingTables)
Window == <<0, 2, 2, 0>>

Analyzer(fifo, fill, fdb, mags, hop, frames) ==
  [fifoBuffer |-> fifo, fifoFill |-> fill, frequencyDomainBuffer |-> fdb,
   latestMagnitudes |-> mags, hopSize |-> hop, framesDone |-> frames]

\* the constructor: hopSizeIn > 0 ? hopSizeIn : fftSize / 2, the buffers
\* resized with zeros, fifoFill 0, latestMagnitudes empty
NewAnalyzer(hopSizeIn) ==
  Analyzer(Zeros(FftSize), 0, Zeros(2 * FftSize), <<>>,
           IF hopSizeIn > 0 THEN hopSizeIn ELSE FftSize \div 2, 0)

\* a reset() that leaves latestMagnitudes alone
resetKeepingMagnitudes(an) ==
  [an EXCEPT !.fifoFill = 0,
             !.fifoBuffer = [i \in 1..Len(an.fifoBuffer) |-> 0],
             !.frequencyDomainBuffer =
                [i \in 1..Len(an.frequencyDomainBuffer) |-> 0],
             !.framesDone = 0]

\* reset(): fifoFill = 0, both buffers filled with 0, latestMagnitudes
\* cleared
reset(an) ==
  [an EXCEPT !.fifoFill = 0,
             !.fifoBuffer = [i \in 1..Len(an.fifoBuffer) |-> 0],
             !.frequencyDomainBuffer =
                [i \in 1..Len(an.frequencyDomainBuffer) |-> 0],
             !.latestMagnitudes = <<>>,
             !.framesDone = 0]

\* performRealOnlyForwardTransform of 4 real points: interleaved re, im of
\* bins 0..2, the remainder of the buffer left at zero
RealForwardTransform(y) ==
  <<y[1] + y[2] + y[3] + y[4], 0,
    y[1] - y[3], y[4] - y[2],
    y[1] - y[2] + y[3] - y[4], 0,
    0, 0>>

\* computeMagnitudes: |X[0]| for DC, sqrt(re^2 + im^2) for the other bins
ComputeMagnitudes(fdb) ==
  [i \in 1..(FftSize \div 2) |->
     IF i = 1 THEN Abs(fdb[1])
     ELSE ISqrt(fdb[2 * (i - 1) + 1] * fdb[2 * (i - 1) + 1]
                + fdb[2 * (i - 1) + 2] * fdb[2 * (i - 1) + 2])]

\* a processFrame that transforms but does not publish the magnitudes
ProcessFrameUnpublished(an) ==
  LET frame == [i \in 1..FftSize |-> an.fifoBuffer[i] * Window[i]]
  IN  Analyzer(an.fifoBuffer, an.fifoFill, RealForwardTransform(frame),
               an.latestMagnitudes, an.hopSize, an.framesDone + 1)

\* processFrame: window, transform, magnitudes
ProcessFrame(an) ==
  LET frame == [i \in 1..FftSize |-> an.fifoBuffer[i] * Window[i]]
      fdb   == RealForwardTransform(frame)
  IN  Analyzer(an.fifoBuffer, an.fifoFill, fdb, ComputeMagnitudes(fdb),
               an.hopSize, an.framesDone + 1)

\* a FIFO that is not shifted after a frame
ShiftFifoSkipped(fifo, hop) == fifo

\* the shift of the FIFO left by hopSize (the tail keeps its old values)
ShiftFifo(fifo, hop) ==
  [i \in 1..FftSize |->
     IF i <= FftSize - hop THEN fifo[i + hop] ELSE fifo[i]]

\* a frame test that succeeds as soon as one hop is in the FIFO
FrameReadyAtHop(an) == an.fifoFill >= an.hopSize

\* if (fifoFill == fftSize)
FrameReady(an) == an.fifoFill = FftSize

\* a FIFO emptied after every frame
FillAfterFrameEmptied(fill, hop) == 0

\* fifoFill -= hopSize
FillAfterFrame(fill, hop) == fill - hop

\* pushSamples(input, numSamples): the while loop from position index
RECURSIVE PushSamplesFrom(_, _, _)
PushSamplesFrom(an, input, index) ==
  IF index >= Len(input) THEN an
  ELSE LET samplesToCopy == Min(Len(input) - index, FftSize - an.fifoFill)
           fifo == [i \in 1..FftSize |->
                      IF i > an.fifoFill /\ i <= an.fifoFill + samplesToCopy
                      THEN input[index + (i - an.fifoFill)]
                      ELSE an.fifoBuffer[i]]
           filled == [an EXCEPT !.fifoBuffer = fifo,
                                !.fifoFill = an.fifoFill + samplesToCopy]
           framed == ProcessFrame(filled)
           next == IF FrameReady(filled)
                   THEN [framed EXCEPT
                           !.fifoBuffer =
                              ShiftFifo(framed.fifoBuffer, an.hopSize),
                           !.fifoFill =
                              FillAfterFrame(framed.fifoFill, an.hopSize)]
                   ELSE filled
       IN  PushSamplesFrom(next, input, index + samplesToCopy)

PushSamples(an, input) == PushSamplesFrom(an, input, 0)

\* the analyzer held in the state variables
TheAnalyzer ==
  Analyzer(fifoBuffer, fifoFill, frequencyDomainBuffer, latestMagnitudes,
           hopSize, framesDone)

\* the analyzer in the state reset() leaves it in
ResetAnalyzer == reset(TheAnalyzer)

\* the members take the values of an
SetMembers(an) ==
  /\ fifoBuffer' = an.fifoBuffer
  /\ fifoFill' = an.fifoFill
  /\ frequencyDomainBuffer' = an.frequencyDomainBuffer
  /\ latestMagnitudes' = an.latestMagnitudes
  /\ hopSize' = an.hopSize
  /\ framesDone' = an.framesDone

\* the same inside a processor, where the analyzer is not observed on its own
SetAnalyzer(an) == SetMembers(an) /\ UNCHANGED probeVars

\* the analyzer as constructed, before its first call
AnalyzerNew(hopSizeIn) ==
  /\ fifoBuffer = NewAnalyzer(hopSizeIn).fifoBuffer
  /\ fifoFill = NewAnalyzer(hopSizeIn).fifoFill
  /\ frequencyDomainBuffer = NewAnalyzer(hopSizeIn).frequencyDomainBuffer
  /\ latestMagnitudes = NewAnalyzer(hopSizeIn).latestMagnitudes
  /\ hopSize = NewAnalyzer(hopSizeIn).hopSize
  /\ framesDone = 0
  /\ pushed = 0
  /\ pushes = 0
  /\ hopOnly = TRUE
  /\ anPc = "new"
  /\ dirtyReset = FALSE
  /\ rebuilt = FALSE
  /\ stream = <<>>
  /\ lastFrames = 0

\* no output sample has been mixed
NoMixCall ==
  /\ mixIn = <<>>
  /\ mixOut = <<>>
  /\ mixPc = "idle"

\* no update has been made on a bank on its own
NoUpdateCall ==
  /\ bankBefore = <<>>
  /\ upArgs = <<>>
  /\ bankPc = "new"

\* the buffers of the per-cluster loop do not exist yet
NoBuffers ==
  /\ dryBuffer = <<>>
  /\ wetBuffer = <<>>
  /\ tempBuffer = <<>>
  /\ loopI = 0
  /\ fedIn = <<>>
  /\ processedOut = <<>>

\* the per-cluster loop has not been entered on its own
NoLoopCall ==
  /\ loopIn = <<>>
  /\ NoBuffers
  /\ loopPc = "idle"

\* the analyzer as constructed with the given hop, no call made on it yet
AnalyzerInit(hopSizeIn) ==
  /\ AnalyzerNew(hopSizeIn)
  /\ NoMixCall
  /\ NoUpdateCall
  /\ NoLoopCall

(***************************************************************************)
(* CommunityClustering::clusterNodes.                                      *)
(***************************************************************************)
Centroid(frequency, magnitude) ==
  [frequency |-> frequency, magnitude |-> magnitude]

\* distanceSquared(node, centroid): log-frequency / dB-magnitude space
distanceSquared(node, centroid) ==
  LET df == LogEps(<<node.frequency, 1>>) - LogEps(centroid.frequency)
      dm == DbEps(<<node.magnitude, 1>>) - DbEps(centroid.magnitude)
  IN  df * df + dm * dm

\* centroids after the seeding loop: centroid i is nodes[i % n]
InitCentroids(ns, k) ==
  [j \in 1..k |->
     LET idx == (j - 1) % Len(ns)
     IN  Centroid(<<ns[idx + 1].frequency, 1>>, <<ns[idx + 1].magnitude, 1>>)]

\* a comparison that lets a later centroid at the same distance win
CloserOrEqual(d, bestDistance) == d <= bestDistance

\* if (d < bestDistance)
CloserThan(d, bestDistance) == d < bestDistance

\* the inner loop over j = from..k-1 with the running best (strict <)
RECURSIVE ScanCentroids(_, _, _, _, _)
ScanCentroids(node, cs, j, bestCluster, bestDistance) ==
  IF j >= Len(cs) THEN bestCluster
  ELSE LET d == distanceSquared(node, cs[j + 1])
       IN  IF CloserThan(d, bestDistance)
           THEN ScanCentroids(node, cs, j + 1, j, d)
           ELSE ScanCentroids(node, cs, j + 1, bestCluster, bestDistance)

\* a scan that records the 1-based position of the best centroid
RECURSIVE ScanCentroidsOneBased(_, _, _, _, _)
ScanCentroidsOneBased(node, cs, j, bestCluster, bestDistance) ==
  IF j >= Len(cs) THEN bestCluster
  ELSE LET d == distanceSquared(node, cs[j + 1])
       IN  IF d < bestDistance
           THEN ScanCentroidsOneBased(node, cs, j + 1, j + 1, d)
           ELSE ScanCentroidsOneBased(node, cs, j + 1, bestCluster,
                                      bestDistance)

BestClusterOneBased(node, cs) ==
  ScanCentroidsOneBased(node, cs, 1, 0, distanceSquared(node, cs[1]))

\* bestCluster of one node after the scan of all centroids
BestCluster(node, cs) ==
  ScanCentroids(node, cs, 1, 0, distanceSquared(node, cs[1]))

\* assignment step: the new assignments vector
AssignStep(ns, cs) == [i \in 1..Len(ns) |-> BestCluster(ns[i], cs)]

Members(as, j) == {i \in 1..Len(as) : as[i] = j}

RECURSIVE SumOver(_, _, _)
SumOver(ns, S, field) ==
  IF S = {} THEN 0
  ELSE LET i == CHOOSE x \in S : TRUE
       IN  ns[i][field] + SumOver(ns, S \ {i}, field)

\* clusters left without a member by the assignment
EmptyClusters(as, k) == {j \in 0..(k - 1) : Members(as, j) = {}}

\* update step: mean of the members, or the node picked for an empty cluster
UpdateStep(ns, as, k, pick) ==
  [j \in 1..k |->
     LET M == Members(as, j - 1)
     IN  IF M # {}
         THEN Centroid(Rat(SumOver(ns, M, "frequency"), Cardinality(M)),
                       Rat(SumOver(ns, M, "magnitude"), Cardinality(M)))
         ELSE Centroid(<<ns[pick[j - 1] + 1].frequency, 1>>,
                       <<ns[pick[j - 1] + 1].magnitude, 1>>)]

\* assignments left at -1 until a node is assigned
InitialAssignmentsUnset(n) == [i \in 1..n |-> -1]

\* std::vector<int> assignments(n, 0)
InitialAssignments(n) == [i \in 1..n |-> 0]

\* entry of clusterNodes(ns, k, maxIterations): assignments(n, 0), the early
\* return, the seeding
ClusterEnterWith(ns, k, maxIterations) ==
  /\ nodes' = ns
  /\ kArg' = k
  /\ maxIterArg' = maxIterations
  /\ assignments' = InitialAssignments(Len(ns))
  /\ reseeded' = FALSE
  /\ IF Len(ns) = 0 \/ k <= 0
     THEN /\ clPc' = "returned"
          /\ UNCHANGED <<centroids, changed, iterations>>
     ELSE /\ centroids' = InitCentroids(ns, k)
          /\ changed' = TRUE
          /\ iterations' = 0
          /\ clPc' = "loop"

ClusterEnter ==
  /\ clPc = "entry"
  /\ ClusterEnterWith(nodes, kArg, maxIterArg)

\* a loop that goes on until nothing changes, whatever the cap
LoopContinuesUncapped(ch, it, maxIterations) == ch

\* while (changed && iterations < maxIterations)
LoopContinues(ch, it, maxIterations) == ch /\ it < maxIterations

\* one iteration of the while loop: assignment step, update step
ClusterIterate ==
  /\ clPc = "loop"
  /\ LoopContinues(changed, iterations, maxIterArg)
  /\ LET as == AssignStep(nodes, centroids)
         E  == EmptyClusters(as, kArg)
     IN  /\ assignments' = as
         /\ changed' = (as # assignments)
         /\ \E pick \in [E -> 0..(Len(nodes) - 1)] :
              centroids' = UpdateStep(nodes, as, kArg, pick)
         /\ reseeded' = (reseeded \/ E # {})
  /\ iterations' = iterations + 1
  /\ UNCHANGED <<nodes, kArg, maxIterArg, clPc>>

\* the loop condition fails
LoopDone == ~LoopContinues(changed, iterations, maxIterArg)

\* the loop condition fails: return assignments
ClusterReturn ==
  /\ clPc = "loop"
  /\ LoopDone
  /\ clPc' = "returned"
  /\ UNCHANGED <<nodes, kArg, maxIterArg, centroids, assignments, changed,
                 iterations, reseeded>>

\* clusterNodes is about to hand its result to the caller
ClusterReturning == clPc = "returned" \/ (clPc = "loop" /\ LoopDone)

\* the caller takes the result; the other variables of the call stay
ClusterTaken ==
  /\ clPc' = "idle"
  /\ UNCHANGED <<nodes, kArg, maxIterArg, centroids, assignments, changed,
                 iterations, reseeded>>

(***************************************************************************)
(* Per-cluster energy: accumulate, average, normalise.                     *)
(***************************************************************************)
ZeroEnergies(k) == [c \in 1..k |-> <<0, 1>>]

\* v.resize(k): the first elements kept, new ones value-initialised
ResizeEnergies(v, k) == [c \in 1..k |-> IF c <= Len(v) THEN v[c] ELSE <<0, 1>>]

\* energies[cluster] += magnitude over all nodes, on top of init
AccumulateEnergies(init, ns, as) ==
  [c \in 1..Len(init) |->
     RatAdd(init[c], <<SumOver(ns, Members(as, c - 1), "magnitude"), 1>>)]

\* clusterCounts after the accumulation loop
ClusterCounts(as, k) == [c \in 1..k |-> Cardinality(Members(as, c - 1))]

\* a fallback of 1.0 for a cluster without members
EmptyClusterEnergyOne == <<1, 1>>

\* the fallback 0.0f of a cluster without members
EmptyClusterEnergy == <<0, 1>>

\* energies[i] = counts[i] > 0 ? energies[i] / counts[i] : 0
AverageEnergies(acc, counts) ==
  [c \in 1..Len(acc) |->
     IF counts[c] > 0 THEN RatDivInt(acc[c], counts[c])
     ELSE EmptyClusterEnergy]

\* a normalisation that divides by the number of clusters
NormalizeEnergiesByCount(v) == [c \in 1..Len(v) |-> RatDivInt(v[c], Len(v))]

\* divide by the sum when the sum is positive
NormalizeEnergies(v) ==
  LET energySum == RatSum(v)
  IN  IF RatPos(energySum)
      THEN [c \in 1..Len(v) |-> RatDiv(v[c], energySum)]
      ELSE v

\* the averages, stored before they are normalised
FreshEnergiesAveraged(ns, as, k) ==
  AverageEnergies(AccumulateEnergies(ZeroEnergies(k), ns, as),
                  ClusterCounts(as, k))

\* the worker's newEnergies: from zeros
FreshEnergies(ns, as, k) ==
  NormalizeEnergies(
    AverageEnergies(AccumulateEnergies(ZeroEnergies(k), ns, as),
                    ClusterCounts(as, k)))

(***************************************************************************)
(* CommunityReverb and the bank.                                           *)
(***************************************************************************)
\* a unit as constructed: roomSize 0.5, damping 0.5, wetLevel 0.33,
\* dryLevel 0.4, width 1, freezeMode 0, and a silent tail
NewReverb(id) ==
  [id |-> id, roomSize |-> <<1, 2>>, damping |-> <<1, 2>>,
   wetLevel |-> <<33, 100>>, dryLevel |-> <<2, 5>>, width |-> <<1, 1>>,
   freezeMode |-> <<0, 1>>, tail |-> FALSE]

\* CommunityReverb::processBlock: the unit has processed audio and holds
\* a tail
ProcessUnit(unit) == [unit EXCEPT !.tail = TRUE]

\* the value passed on as it is
Unclamped(n, d) == Rat(n, d)

\* juce::jlimit(0, 1, n/d)
Clamp01(n, d) ==
  IF n < 0 THEN <<0, 1>> ELSE IF n > d THEN <<1, 1>> ELSE Rat(n, d)

UpdateParameters(unit, avgEnergy, inverted, intensity) ==
  [unit EXCEPT
     !.roomSize = IF inverted
                  THEN Clamp01(avgEnergy[1], avgEnergy[2])
                  ELSE Clamp01(avgEnergy[2] - avgEnergy[1], avgEnergy[2]),
     !.wetLevel = Clamp01(intensity[1], intensity[2])]

\* a bank that rebuilds on every block
NeedsRebuildAlways(bank) == TRUE

\* communityReverbs.size() != numClusters
NeedsRebuild(bank) == Len(bank) # NumClusters

\* clear(), then numClusters new units
RebuildBank(firstId) == [i \in 1..NumClusters |-> NewReverb(firstId + i - 1)]

\* a fallback of 1.0 for a cluster the vector does not reach
EnergyOrOne(ce, i) == IF i < Len(ce) THEN ce[i + 1] ELSE <<1, 1>>

\* i < clusterEnergies.size() ? clusterEnergies[i] : 0.0f
EnergyOrZero(ce, i) == IF i < Len(ce) THEN ce[i + 1] ELSE <<0, 1>>

\* Graphverb::processBlock: updateParameters on every unit of the bank
UpdateBank(bank, ce, expand, intensity) ==
  [i \in 1..Len(bank) |->
     UpdateParameters(bank[i], EnergyOrZero(ce, i - 1), expand, intensity)]

\* GraphVerb::processBlock: updateParameters(clusterEnergies[i]) on every
\* unit, the flag and the intensity defaulted
UpdateBankSync(bank, ce) ==
  [i \in 1..Len(bank) |->
     UpdateParameters(bank[i], ce[i], FALSE, bank[i].wetLevel)]

\* the per-cluster loop: every unit processes a block
ProcessBank(bank) == [i \in 1..Len(bank) |-> ProcessUnit(bank[i])]

(***************************************************************************)
(* The output stage of processBlock.  Samples, levels and gains are held   *)
(* x 1000.  The reverb is juce::dsp::Reverb: its output for the block is   *)
(* an argument here.                                                       *)
(***************************************************************************)
\* 1000 * std::tanh(m / 1000) for m >= 0, by steps of 0.25
TanhTab ==
  <<0, 245, 462, 635, 762, 848, 905, 941, 964, 978, 987, 992, 995, 997, 998,
    999>>

\* a stage that writes the mixed sample as it is
TanhSkipped(m) == m

\* 1000 * std::tanh(m / 1000)
Tanh(m) ==
  LET step == Abs(m) \div 250
      t    == IF step >= Len(TanhTab) THEN 1000 ELSE TanhTab[step + 1]
  IN  IF m < 0 THEN -t ELSE t

\* juce::Decibels::decibelsToGain(juce::jmap(gain, 0, 1, -60, 12)) for the
\* gain settings 0, 0.5 and 1: 10^(-60/20), 10^(-24/20), 10^(12/20)
LinearGain(gain) ==
  CASE gain = 0    -> 1
    [] gain = 500  -> 63
    [] gain = 1000 -> 3981

\* wet[s] += weight * temp[s] over the clusters i..NumClusters-1;
\* weights[i + 1] is the energy used for cluster i
RECURSIVE WetSum(_, _, _)
WetSum(weights, temp, i) ==
  IF i >= NumClusters THEN 0
  ELSE (weights[i + 1][1] * temp[i + 1]) \div weights[i + 1][2]
       + WetSum(weights, temp, i + 1)

\* juce::AudioBuffer::makeCopyOf
MakeCopyOf(other) == other

\* juce::AudioBuffer::clear on a buffer of the shape of other
Cleared(other) ==
  [ch \in 1..Len(other) |-> [s \in 1..Len(other[ch]) |-> 0]]

\* wet[s] = weight * temp[s]: the accumulator overwritten
OverwriteWet(wet, weight, temp) ==
  [ch \in 1..Len(wet) |->
     [s \in 1..Len(wet[ch]) |-> (weight[1] * temp[ch][s]) \div weight[2]]]

\* wet[s] += weight * temp[s] for every channel and sample
AccumulateWet(wet, weight, temp) ==
  [ch \in 1..Len(wet) |->
     [s \in 1..Len(wet[ch]) |->
        wet[ch][s] + (weight[1] * temp[ch][s]) \div weight[2]]]

\* Graphverb::processBlock, one sample x of the buffer: wet by bypass, the
\* dry/wet mix, the gain, tanh
MixAsync(x, bypass, liveliness, gain, ce, temp) ==
  LET weights   == [c \in 1..NumClusters |-> EnergyOrZero(ce, c - 1)]
      wet       == IF ~bypass THEN WetSum(weights, temp, 0) ELSE x
      dryLevel  == 1000 - liveliness
      dryWet    == (dryLevel * x + (1000 - dryLevel) * wet) \div 1000
      mixed     == (dryWet * LinearGain(gain)) \div 1000
  IN  [mixed |-> mixed, out |-> Tanh(mixed)]

\* GraphVerb::processBlock, one sample x of the buffer: the wet sum, the
\* dry/wet mix, tanh
MixSync(x, dryLevel, ce, temp) ==
  LET weights   == [c \in 1..NumClusters |-> ce[c]]
      wet       == WetSum(weights, temp, 0)
      mixed     == (dryLevel * x + (1000 - dryLevel) * wet) \div 1000
  IN  [mixed |-> mixed, out |-> Tanh(mixed)]

(***************************************************************************)
(* The processor.  Host calls (prepareToPlay, releaseResources,            *)
(* processBlock, destruction) are serialised by the host; the worker and   *)
(* the editor's timer run concurrently with them.                          *)
(***************************************************************************)
\* input buffers: channels of samples
InputBlocks == {<<<<2, 0>>, <<0, 2>>>>, <<<<0, 2, 2, 0>>>>}

SampleRates == {4}

\* values of the "intensity" parameter
Intensities == {<<4, 5>>}

\* stereo to mono: 0.5 * (left + right), or the single channel
Downmix(buffer) ==
  IF Len(buffer) >= 2
  THEN [i \in 1..Len(buffer[1]) |-> (buffer[1][i] + buffer[2][i]) \div 2]
  ELSE buffer[1]

\* seq: the number of the push that queued the frame (history)
Frame(samples, e, n) == [samples |-> samples, epoch |-> e, seq |-> n]

\* a queue that hands out its newest element
QueueBack(q) == q[Len(q)]

\* std::queue::front
QueueFront(q) == Head(q)

\* a lock_guard that keeps the mutex when it goes out of scope
ReleaseMutexKept(m) == m

\* the lock_guard goes out of scope
ReleaseMutex(m) == "free"

\* a lock that is never waited for
MutexIgnored(m) == TRUE

\* std::lock_guard can take the mutex
MutexFree(m) == m = "free"

\* the members other than the analyzer, as constructed
MembersInit(m) ==
  /\ mode = m
  /\ sampleRate = 0
  /\ procState = "alive"
  /\ hostPc = "idle"
  /\ edges = <<>>
  /\ analysisInputQueue = <<>>
  /\ analysisThread = "none"
  /\ threadShouldExit = FALSE
  /\ wPc = "none"
  /\ inputBuffer = Frame(<<>>, 0, 0)
  /\ newEnergies = <<>>
  /\ latestClusterEnergies = <<>>
  /\ energyMutex = "free"
  /\ queueMutex = "free"
  /\ clusterEnergies = <<>>
  /\ copyIdx = 0
  /\ communityReverbs = <<>>
  /\ uiEnergies = <<>>
  /\ epoch = 0
  /\ blocks = 0
  /\ stores = 0
  /\ analyzed = <<>>
  /\ stored = <<>>
  /\ latestStamp = 0
  /\ latestEpoch = 0
  /\ ceStamps = <<>>
  /\ adopted = 0
  /\ adoptedEpoch = 0
  /\ lastAdopted = 0
  /\ completeVectors = {<<>>}
  /\ nextUnitId = 0
  /\ clobbered = FALSE
  /\ released = FALSE
  /\ restartEpoch = 0

\* spectralAnalyzer(10, 512) and the other members
ProcessorInit(m) == AnalyzerInit(HopSize) /\ MembersInit(m)

NoProcessor == ProcessorInit("none")

Alive(m) == mode = m /\ procState = "alive"

\* pushSamples, getLatestMagnitudes, buildGraph on the given mono buffer,
\* then the call of clusterNodes(spectralGraph.nodes, numClusters)
AnalyzeAndCluster(mono) ==
  LET an == PushSamples(TheAnalyzer, mono)
      g  == buildGraph(Graph(nodes, edges), an.latestMagnitudes, sampleRate,
                       FftSize)
  IN  /\ SetAnalyzer(an)
      /\ edges' = g.edges
      /\ ClusterEnterWith(g.nodes, NumClusters, DefaultMaxIterations)

(***************************************************************************)
(* Graphverb (asynchronous): host calls.                                   *)
(***************************************************************************)
\* prepareToPlay, first part: spectralAnalyzer.reset(), threadShouldExit =
\* false
PrepareToPlayReset ==
  /\ Alive("async") /\ hostPc = "idle"
  /\ epoch < MaxPrepares
  /\ \E rate \in SampleRates : sampleRate' = rate
  /\ SetAnalyzer(ResetAnalyzer)
  /\ threadShouldExit' = FALSE
  /\ epoch' = epoch + 1
  /\ restartEpoch' = IF released THEN epoch + 1 ELSE restartEpoch
  /\ released' = FALSE
  /\ hostPc' = "prep_start"
  /\ UNCHANGED <<mode, procState, clobbered>>
  /\ UNCHANGED <<clusterVars, edges, blocks, energyVars, bankVars,
                 completeVectors, uiEnergies, analysisThread, wPc,
                 workerVars, slotVars, analysisInputQueue, energyMutex,
                 queueMutex>>

\* prepareToPlay, second part: analysisThread = std::thread(...).  Assigning
\* to a joinable std::thread calls std::terminate.
PrepareToPlayStart ==
  /\ Alive("async") /\ hostPc = "prep_start"
  /\ hostPc' = "idle"
  /\ IF analysisThread = "joinable"
     THEN /\ procState' = "terminated"
          /\ clobbered' = TRUE
          /\ UNCHANGED <<analysisThread, wPc, inputBuffer>>
     ELSE /\ analysisThread' = "joinable"
          /\ wPc' = "test"
          /\ inputBuffer' = Frame(<<>>, 0, 0)
          /\ UNCHANGED <<procState, clobbered>>
  /\ UNCHANGED <<mode, sampleRate, epoch, released, restartEpoch>>
  /\ UNCHANGED <<analyzerVars, clusterVars, edges, blocks, energyVars,
                 bankVars, completeVectors, uiEnergies, threadShouldExit,
                 newEnergies, slotVars, analysisInputQueue, energyMutex,
                 queueMutex>>

\* releaseResources, first part: threadShouldExit = true
ReleaseResourcesSignal ==
  /\ Alive("async") /\ hostPc = "idle"
  /\ threadShouldExit' = TRUE
  /\ released' = (epoch > 0)
  /\ hostPc' = IF analysisThread = "joinable" THEN "rel_join" ELSE "idle"
  /\ UNCHANGED <<mode, sampleRate, procState, epoch, restartEpoch, clobbered>>
  /\ UNCHANGED <<analyzerVars, clusterVars, edges, blocks, energyVars,
                 bankVars, completeVectors, uiEnergies, analysisThread, wPc,
                 workerVars, slotVars, analysisInputQueue, energyMutex,
                 queueMutex>>

\* releaseResources, second part: join() returns once the lambda returned
ReleaseResourcesJoin ==
  /\ Alive("async") /\ hostPc = "rel_join"
  /\ wPc = "exited"
  /\ analysisThread' = "none"
  /\ wPc' = "none"
  /\ hostPc' = "idle"
  /\ UNCHANGED <<analyzerVars, clusterVars, edges, lifeVars, blocks,
                 energyVars, bankVars, completeVectors, uiEnergies,
                 threadShouldExit, workerVars, slotVars, analysisInputQueue,
                 energyMutex, queueMutex>>

\* ~Graphverb() = default: the members are destroyed; destroying a joinable
\* std::thread calls std::terminate.
Destroy ==
  /\ Alive("async") /\ hostPc = "idle"
  /\ IF analysisThread = "joinable"
     THEN procState' = "terminated" /\ clobbered' = TRUE
     ELSE procState' = "destroyed" /\ UNCHANGED clobbered
  /\ UNCHANGED <<mode, sampleRate, epoch, released, restartEpoch>>
  /\ UNCHANGED <<analyzerVars, clusterVars, edges, hostPc, blocks,
                 energyVars, bankVars, completeVectors, uiEnergies,
                 threadVars, workerVars, slotVars, analysisInputQueue,
                 energyMutex, queueMutex>>

\* processBlock: analysisInputQueue.push, std::lock_guard lock(mutex)
ProcessBlockQueueLock ==
  /\ Alive("async") /\ hostPc = "idle"
  /\ blocks < MaxBlocks
  /\ MutexFree(queueMutex)
  /\ queueMutex' = "host"
  /\ hostPc' = "pb_push"
  /\ UNCHANGED <<analyzerVars, clusterVars, edges, lifeVars, blocks,
                 energyVars, bankVars, completeVectors, uiEnergies,
                 threadVars, workerVars, slotVars, analysisInputQueue,
                 energyMutex>>

\* processBlock: downmix, analysisInputQueue.push(monoBuffer): queue.push
\* under the queue's lock
ProcessBlockPush ==
  /\ Alive("async") /\ hostPc = "pb_push"
  /\ \E buffer \in InputBlocks :
       analysisInputQueue' =
         Append(analysisInputQueue, Frame(Downmix(buffer), epoch, blocks + 1))
  /\ queueMutex' = ReleaseMutex(queueMutex)
  /\ adopted' = 0
  /\ adoptedEpoch' = 0
  /\ hostPc' = "pb_lock"
  /\ UNCHANGED <<clusterEnergies, ceStamps, copyIdx, lastAdopted>>
  /\ UNCHANGED <<analyzerVars, clusterVars, edges, lifeVars, blocks,
                 bankVars, completeVectors, uiEnergies, threadVars,
                 workerVars, slotVars, energyMutex>>

\* processBlock: std::lock_guard lock(energyMutex)
ProcessBlockLock ==
  /\ Alive("async") /\ hostPc = "pb_lock"
  /\ MutexFree(energyMutex)
  /\ energyMutex' = "host"
  /\ UNCHANGED queueMutex
  /\ copyIdx' = 0
  /\ hostPc' = "pb_copy"
  /\ UNCHANGED <<clusterEnergies, ceStamps, adopted, adoptedEpoch,
                 lastAdopted>>
  /\ UNCHANGED <<analyzerVars, clusterVars, edges, lifeVars, blocks,
                 bankVars, completeVectors, uiEnergies, threadVars,
                 workerVars, slotVars, analysisInputQueue>>

\* processBlock: if (!latestClusterEnergies.empty()) clusterEnergies =
\* latestClusterEnergies; the vector is copied one element per step
ProcessBlockCopy ==
  /\ Alive("async") /\ hostPc = "pb_copy"
  /\ IF latestClusterEnergies = <<>>
     THEN /\ hostPc' = "pb_unlock"
          /\ UNCHANGED energyVars
     ELSE IF copyIdx < Len(latestClusterEnergies)
     THEN /\ clusterEnergies' =
               [i \in 1..Len(latestClusterEnergies) |->
                  IF i = copyIdx + 1 THEN latestClusterEnergies[i]
                  ELSE IF i <= Len(clusterEnergies) THEN clusterEnergies[i]
                  ELSE <<0, 1>>]
          /\ ceStamps' =
               [i \in 1..Len(latestClusterEnergies) |->
                  IF i = copyIdx + 1 THEN latestStamp
                  ELSE IF i <= Len(ceStamps) THEN ceStamps[i]
                  ELSE 0]
          /\ copyIdx' = copyIdx + 1
          /\ UNCHANGED <<hostPc, adopted, adoptedEpoch, lastAdopted>>
     ELSE /\ adopted' = latestStamp
          /\ adoptedEpoch' = latestEpoch
          /\ lastAdopted' = latestStamp
          /\ hostPc' = "pb_unlock"
          /\ UNCHANGED <<clusterEnergies, ceStamps, copyIdx>>
  /\ UNCHANGED <<analyzerVars, clusterVars, edges, lifeVars, blocks,
                 bankVars, completeVectors, uiEnergies, threadVars,
                 workerVars, slotVars, analysisInputQueue, energyMutex,
                 queueMutex>>

\* processBlock: the lock_guard goes out of scope
ProcessBlockUnlock ==
  /\ Alive("async") /\ hostPc = "pb_unlock"
  /\ energyMutex' = ReleaseMutex(energyMutex)
  /\ UNCHANGED queueMutex
  /\ hostPc' = "pb_resize"
  /\ UNCHANGED <<analyzerVars, clusterVars, edges, lifeVars, blocks,
                 energyVars, bankVars, completeVectors, uiEnergies,
                 threadVars, workerVars, slotVars, analysisInputQueue>>

\* processBlock (both variants): rebuild the bank if its size is not
\* numClusters
ProcessBlockResize ==
  /\ procState = "alive" /\ hostPc = "pb_resize"
  /\ IF NeedsRebuild(communityReverbs)
     THEN /\ communityReverbs' = RebuildBank(nextUnitId)
          /\ nextUnitId' = nextUnitId + NumClusters
     ELSE UNCHANGED <<communityReverbs, nextUnitId>>
  /\ hostPc' = "pb_mix"
  /\ UNCHANGED <<analyzerVars, clusterVars, edges, lifeVars, blocks,
                 energyVars, completeVectors, uiEnergies, threadVars,
                 workerVars, slotVars, analysisInputQueue, energyMutex,
                 queueMutex>>

\* processBlock (both variants): updateParameters on every unit, then the
\* per-cluster reverbs and the mix; the call returns.  The synchronous
\* variant passes the energy only.
ProcessBlockMix ==
  /\ procState = "alive" /\ hostPc = "pb_mix"
  /\ IF mode = "async"
     THEN \E expand \in BOOLEAN, intensity \in Intensities,
             bypass \in BOOLEAN :
            LET updated == UpdateBank(communityReverbs, clusterEnergies,
                                      expand, intensity)
            IN  communityReverbs' =
                  IF bypass THEN updated ELSE ProcessBank(updated)
     ELSE communityReverbs' =
            ProcessBank(UpdateBankSync(communityReverbs, clusterEnergies))
  /\ blocks' = blocks + 1
  /\ completeVectors' = completeVectors \cup {clusterEnergies}
  /\ hostPc' = "idle"
  /\ UNCHANGED <<analyzerVars, clusterVars, edges, lifeVars, energyVars,
                 nextUnitId, uiEnergies, threadVars, workerVars, slotVars,
                 analysisInputQueue, energyMutex, queueMutex>>

(***************************************************************************)
(* Graphverb (asynchronous): the worker lambda.                            *)
(***************************************************************************)
\* what a worker step that touches only its own position leaves alone
WorkerOnlyMoves ==
  UNCHANGED <<analyzerVars, clusterVars, edges, lifeVars, hostPc, blocks,
              energyVars, bankVars, completeVectors, uiEnergies,
              analysisThread, threadShouldExit, workerVars, slotVars,
              analysisInputQueue, energyMutex, queueMutex>>

\* while (!threadShouldExit.load())
WorkerTest ==
  /\ Alive("async") /\ wPc = "test"
  /\ wPc' = IF threadShouldExit THEN "exited" ELSE "pop"
  /\ WorkerOnlyMoves

\* analysisInputQueue.pop, std::lock_guard lock(mutex)
WorkerQueueLock ==
  /\ Alive("async") /\ wPc = "pop"
  /\ MutexFree(queueMutex)
  /\ queueMutex' = "worker"
  /\ wPc' = "popping"
  /\ UNCHANGED <<analyzerVars, clusterVars, edges, lifeVars, hostPc, blocks,
                 energyVars, bankVars, completeVectors, uiEnergies,
                 analysisThread, threadShouldExit, workerVars, slotVars,
                 analysisInputQueue, energyMutex>>

\* analysisInputQueue.pop(inputBuffer): the queue's front under its lock
WorkerPop ==
  /\ Alive("async") /\ wPc = "popping"
  /\ queueMutex' = ReleaseMutex(queueMutex)
  /\ IF analysisInputQueue = <<>>
     THEN /\ wPc' = "sleep"
          /\ UNCHANGED <<inputBuffer, analysisInputQueue>>
     ELSE /\ inputBuffer' = QueueFront(analysisInputQueue)
          /\ analysisInputQueue' = Tail(analysisInputQueue)
          /\ wPc' = "analyze"
  /\ UNCHANGED <<analyzerVars, clusterVars, edges, lifeVars, hostPc, blocks,
                 energyVars, bankVars, completeVectors, uiEnergies,
                 analysisThread, threadShouldExit, newEnergies, slotVars,
                 energyMutex>>

\* std::this_thread::sleep_for(2 ms)
WorkerSleep ==
  /\ Alive("async") /\ wPc = "sleep"
  /\ wPc' = "test"
  /\ WorkerOnlyMoves

\* pushSamples, getLatestMagnitudes, buildGraph; clusterNodes is entered
WorkerAnalyze ==
  /\ Alive("async") /\ wPc = "analyze"
  /\ AnalyzeAndCluster(inputBuffer.samples)
  /\ analyzed' = Append(analyzed, inputBuffer.seq)
  /\ wPc' = "cluster"
  /\ UNCHANGED <<latestClusterEnergies, latestStamp, latestEpoch, stores,
                 stored>>
  /\ UNCHANGED <<lifeVars, hostPc, blocks, energyVars, bankVars,
                 completeVectors, uiEnergies, analysisThread,
                 threadShouldExit, workerVars, analysisInputQueue,
                 energyMutex, queueMutex>>

\* clusterNodes: one iteration of its loop
WorkerCluster ==
  /\ Alive("async") /\ wPc = "cluster"
  /\ ClusterIterate
  /\ UNCHANGED pipelineVars

\* clusterNodes returns: newEnergies accumulated, averaged, normalised
WorkerAggregate ==
  /\ Alive("async") /\ wPc = "cluster"
  /\ ClusterReturning
  /\ newEnergies' = FreshEnergies(nodes, assignments, NumClusters)
  /\ ClusterTaken
  /\ wPc' = "lock"
  /\ UNCHANGED <<analyzerVars, edges, lifeVars, hostPc, blocks, energyVars,
                 bankVars, completeVectors, uiEnergies, analysisThread,
                 threadShouldExit, inputBuffer, slotVars, analysisInputQueue,
                 energyMutex, queueMutex>>

\* std::lock_guard lock(energyMutex)
WorkerLock ==
  /\ Alive("async") /\ wPc = "lock"
  /\ MutexFree(energyMutex)
  /\ energyMutex' = "worker"
  /\ UNCHANGED queueMutex
  /\ wPc' = "store"
  /\ UNCHANGED <<analyzerVars, clusterVars, edges, lifeVars, hostPc, blocks,
                 energyVars, bankVars, completeVectors, uiEnergies,
                 analysisThread, threadShouldExit, workerVars, slotVars,
                 analysisInputQueue>>

\* latestClusterEnergies = std::move(newEnergies)
WorkerStore ==
  /\ Alive("async") /\ wPc = "store"
  /\ latestClusterEnergies' = newEnergies
  /\ newEnergies' = <<>>
  /\ stores' = stores + 1
  /\ latestStamp' = stores + 1
  /\ latestEpoch' = inputBuffer.epoch
  /\ stored' = Append(stored, inputBuffer.seq)
  /\ UNCHANGED analyzed
  /\ wPc' = "unlock"
  /\ UNCHANGED <<analyzerVars, clusterVars, edges, lifeVars, hostPc, blocks,
                 energyVars, bankVars, completeVectors, uiEnergies,
                 analysisThread, threadShouldExit, inputBuffer,
                 analysisInputQueue, energyMutex, queueMutex>>

\* the lock_guard goes out of scope
WorkerUnlock ==
  /\ Alive("async") /\ wPc = "unlock"
  /\ energyMutex' = ReleaseMutex(energyMutex)
  /\ UNCHANGED queueMutex
  /\ wPc' = "test"
  /\ UNCHANGED <<analyzerVars, clusterVars, edges, lifeVars, hostPc, blocks,
                 energyVars, bankVars, completeVectors, uiEnergies,
                 analysisThread, threadShouldExit, workerVars, slotVars,
                 analysisInputQueue>>

(***************************************************************************)
(* GraphVerb (synchronous): host calls.  The host calls prepareToPlay      *)
(* before the first processBlock.                                          *)
(***************************************************************************)
\* what the synchronous variant never touches
AsyncIdle ==
  UNCHANGED <<ceStamps, copyIdx, adopted, adoptedEpoch, lastAdopted,
              threadVars, workerVars, slotVars, analysisInputQueue,
              energyMutex, queueMutex>>

\* prepareToPlay: spectralAnalyzer.reset()
SyncPrepareToPlay ==
  /\ Alive("sync") /\ hostPc = "idle"
  /\ epoch < MaxPrepares
  /\ \E rate \in SampleRates : sampleRate' = rate
  /\ SetAnalyzer(ResetAnalyzer)
  /\ epoch' = epoch + 1
  /\ UNCHANGED <<mode, procState, released, restartEpoch, clobbered>>
  /\ UNCHANGED <<clusterVars, edges, hostPc, blocks, clusterEnergies,
                 bankVars, completeVectors, uiEnergies>>
  /\ AsyncIdle

\* processBlock: downmix, pushSamples, buildGraph; clusterNodes is entered
SyncProcessBlockAnalyze ==
  /\ Alive("sync") /\ hostPc = "idle"
  /\ epoch > 0 /\ blocks < MaxBlocks
  /\ \E buffer \in InputBlocks : AnalyzeAndCluster(Downmix(buffer))
  /\ hostPc' = "s_cluster"
  /\ UNCHANGED <<lifeVars, blocks, clusterEnergies, bankVars,
                 completeVectors, uiEnergies>>
  /\ AsyncIdle

\* processBlock: clusterNodes, one iteration of its loop
SyncCluster ==
  /\ Alive("sync") /\ hostPc = "s_cluster"
  /\ ClusterIterate
  /\ UNCHANGED pipelineVars

\* processBlock: clusterNodes returns; clusterEnergies.resize(numClusters),
\* then clusterEnergies[cluster] += magnitude for every node
SyncAccumulate ==
  /\ Alive("sync") /\ hostPc = "s_cluster"
  /\ ClusterReturning
  /\ clusterEnergies' =
       AccumulateEnergies(ResizeEnergies(clusterEnergies, NumClusters),
                          nodes, assignments)
  /\ ClusterTaken
  /\ hostPc' = "s_average"
  /\ UNCHANGED <<analyzerVars, edges, lifeVars, blocks, bankVars,
                 completeVectors, uiEnergies>>
  /\ AsyncIdle

\* processBlock: the division by the cluster counts
SyncAverage ==
  /\ Alive("sync") /\ hostPc = "s_average"
  /\ clusterEnergies' =
       AverageEnergies(clusterEnergies,
                       ClusterCounts(assignments, NumClusters))
  /\ hostPc' = "s_normalize"
  /\ UNCHANGED <<analyzerVars, clusterVars, edges, lifeVars, blocks,
                 bankVars, completeVectors, uiEnergies>>
  /\ AsyncIdle

\* processBlock: the normalisation
SyncNormalize ==
  /\ Alive("sync") /\ hostPc = "s_normalize"
  /\ clusterEnergies' = NormalizeEnergies(clusterEnergies)
  /\ hostPc' = "pb_resize"
  /\ UNCHANGED <<analyzerVars, clusterVars, edges, lifeVars, blocks,
                 bankVars, completeVectors, uiEnergies>>
  /\ AsyncIdle

(***************************************************************************)
(* The editor's ClusterEnergyView.                                         *)
(***************************************************************************)
\* timerCallback: const auto energies = processor.getClusterEnergies()
UiTimer ==
  /\ mode # "none" /\ procState = "alive"
  /\ uiEnergies' = clusterEnergies
  /\ UNCHANGED <<analyzerVars, clusterVars, edges, lifeVars, hostPc, blocks,
                 energyVars, bankVars, completeVectors, threadVars,
                 workerVars, slotVars, analysisInputQueue, energyMutex,
                 queueMutex>>

(***************************************************************************)
(* The processor in either variant.                                        *)
(***************************************************************************)
Init ==
  /\ \E m \in {"async", "sync"} : ProcessorInit(m)
  /\ nodes = <<>>
  /\ kArg = NumClusters
  /\ maxIterArg = DefaultMaxIterations
  /\ centroids = <<>>
  /\ assignments = <<>>
  /\ changed = FALSE
  /\ iterations = 0
  /\ clPc = "idle"
  /\ reseeded = FALSE

Next ==
  \/ PrepareToPlayReset
  \/ PrepareToPlayStart
  \/ ReleaseResourcesSignal
  \/ ReleaseResourcesJoin
  \/ Destroy
  \/ ProcessBlockQueueLock
  \/ ProcessBlockPush
  \/ ProcessBlockLock
  \/ ProcessBlockCopy
  \/ ProcessBlockUnlock
  \/ ProcessBlockResize
  \/ ProcessBlockMix
  \/ WorkerTest
  \/ WorkerQueueLock
  \/ WorkerPop
  \/ WorkerSleep
  \/ WorkerAnalyze
  \/ WorkerCluster
  \/ WorkerAggregate
  \/ WorkerLock
  \/ WorkerStore
  \/ WorkerUnlock
  \/ SyncPrepareToPlay
  \/ SyncProcessBlockAnalyze
  \/ SyncCluster
  \/ SyncAccumulate
  \/ SyncAverage
  \/ SyncNormalize
  \/ UiTimer

Spec == Init /\ [][Next]_vars

\* a step of the worker lambda
WorkerStep ==
  \/ WorkerTest
  \/ WorkerQueueLock
  \/ WorkerPop
  \/ WorkerSleep
  \/ WorkerAnalyze
  \/ WorkerCluster
  \/ WorkerAggregate
  \/ WorkerLock
  \/ WorkerStore
  \/ WorkerUnlock

\* a step processBlock takes while it holds a lock_guard
HostCriticalSection ==
  \/ ProcessBlockPush
  \/ ProcessBlockCopy
  \/ ProcessBlockUnlock

\* the worker has a step to take: it is not waiting for a mutex another
\* thread holds (the state predicate ENABLED <<WorkerStep>>_vars)
WorkerEnabled ==
  /\ Alive("async")
  /\ \/ wPc \in {"test", "popping", "sleep", "analyze", "cluster", "store",
                 "unlock"}
     \/ wPc = "pop" /\ MutexFree(queueMutex)
     \/ wPc = "lock" /\ MutexFree(energyMutex)

\* WF_vars(WorkerStep), its ENABLED written as the state predicate: the
\* worker thread is scheduled whenever it has a step to take
WorkerScheduled ==
  []<>(~WorkerEnabled) \/ []<><<WorkerStep>>_vars

\* Graphverb (asynchronous) without its editor: the host's calls and the
\* worker
InitAsync ==
  /\ Init
  /\ mode = "async"

NextAsync ==
  \/ PrepareToPlayReset
  \/ PrepareToPlayStart
  \/ ReleaseResourcesSignal
  \/ ReleaseResourcesJoin
  \/ Destroy
  \/ ProcessBlockQueueLock
  \/ ProcessBlockPush
  \/ ProcessBlockLock
  \/ ProcessBlockCopy
  \/ ProcessBlockUnlock
  \/ ProcessBlockResize
  \/ ProcessBlockMix
  \/ WorkerTest
  \/ WorkerQueueLock
  \/ WorkerPop
  \/ WorkerSleep
  \/ WorkerAnalyze
  \/ WorkerCluster
  \/ WorkerAggregate
  \/ WorkerLock
  \/ WorkerStore
  \/ WorkerUnlock

\* the same with the worker scheduled and a host call inside a lock_guard
\* running to the end of its scope
FairSpec ==
  /\ InitAsync
  /\ [][NextAsync]_vars
  /\ WorkerScheduled
  /\ WF_vars(HostCriticalSection)

(***************************************************************************)
(* The analyzer on its own: constructed with any hop 0 < hopSize <=        *)
(* fftSize, then pushSamples and reset calls in any order.                 *)
(***************************************************************************)
\* no clusterNodes call is under way
NoClusterCall ==
  /\ nodes = <<>>
  /\ kArg = NumClusters
  /\ maxIterArg = DefaultMaxIterations
  /\ centroids = <<>>
  /\ assignments = <<>>
  /\ changed = FALSE
  /\ iterations = 0
  /\ clPc = "idle"
  /\ reseeded = FALSE

\* the input buffers of pushSamples
PushInputs == UNION {[1..n -> SampleValues] : n \in 0..MaxPush}

\* what a call on the analyzer on its own leaves alone
AnalyzerOnly ==
  UNCHANGED <<clusterVars, edges, lifeVars, hostPc, blocks, energyVars,
              bankVars, completeVectors, uiEnergies, threadVars, workerVars,
              slotVars, analysisInputQueue, energyMutex, queueMutex>>

InitAnalyzer ==
  /\ \E hop \in 1..FftSize : AnalyzerInit(hop)
  /\ MembersInit("none")
  /\ NoClusterCall

\* a part-filled FIFO of non-zero samples, a transformed frame and its
\* magnitudes
InUse(an) ==
  /\ an.fifoFill > 0
  /\ an.latestMagnitudes # <<>>
  /\ \E i \in 1..FftSize : an.fifoBuffer[i] # 0
  /\ \E i \in 1..(2 * FftSize) : an.frequencyDomainBuffer[i] # 0

\* pushSamples(input, numSamples)
PushSamplesCall ==
  \E input \in PushInputs :
    /\ pushes < MaxPushes
    /\ pushed + Len(input) <= MaxPushed
    /\ SetMembers(PushSamples(TheAnalyzer, input))
    /\ pushed' = pushed + Len(input)
    /\ pushes' = pushes + 1
    /\ hopOnly' = (hopOnly /\ Len(input) = hopSize)
    /\ anPc' = "push"
    /\ stream' = stream \o input
    /\ lastFrames' = PushSamples(TheAnalyzer, input).framesDone - framesDone
    /\ UNCHANGED <<dirtyReset, rebuilt, mixVars>>
    /\ AnalyzerOnly

\* reset()
ResetCall ==
  /\ SetMembers(reset(TheAnalyzer))
  /\ pushed' = 0
  /\ pushes' = 0
  /\ hopOnly' = TRUE
  /\ anPc' = "reset"
  /\ dirtyReset' = InUse(TheAnalyzer)
  /\ stream' = <<>>
  /\ lastFrames' = 0
  /\ UNCHANGED <<rebuilt, mixVars>>
  /\ AnalyzerOnly

NextAnalyzer ==
  \/ PushSamplesCall
  \/ ResetCall

SpecAnalyzer == InitAnalyzer /\ [][NextAnalyzer]_vars

(***************************************************************************)
(* The graph on its own: buildGraph calls with any magnitudes and sample   *)
(* rate, each on the graph the previous call left.  latestMagnitudes and   *)
(* sampleRate hold the arguments of the last call.                         *)
(***************************************************************************)
\* the magnitude vectors of up to maxLen bins
MagnitudeVectors(maxLen, mags) ==
  UNION {[1..n -> mags] : n \in 0..maxLen}

InitGraph ==
  /\ AnalyzerInit(HopSize)
  /\ MembersInit("none")
  /\ NoClusterCall

\* buildGraph(magnitudes, sampleRate, fftSize)
BuildGraphCall ==
  \E magnitudes \in MagnitudeVectors(MaxNodes, GraphMagnitudes),
     rate \in GraphSampleRates :
    LET g == buildGraph(Graph(nodes, edges), magnitudes, rate, FftSize)
    IN  /\ nodes' = g.nodes
        /\ edges' = g.edges
        /\ latestMagnitudes' = magnitudes
        /\ sampleRate' = rate
        /\ rebuilt' = (nodes # <<>> /\ edges # <<>>
                         /\ <<magnitudes, rate>> #
                               <<latestMagnitudes, sampleRate>>)
        /\ UNCHANGED <<fifoBuffer, fifoFill, frequencyDomainBuffer, hopSize,
                       framesDone, pushed, pushes, hopOnly, anPc, dirtyReset,
                       mixVars, streamVars>>
        /\ UNCHANGED <<kArg, maxIterArg, centroids, assignments, changed,
                       iterations, clPc, reseeded>>
        /\ UNCHANGED <<mode, procState, epoch, released, restartEpoch,
                       clobbered>>
        /\ UNCHANGED <<hostPc, blocks, energyVars, bankVars, completeVectors,
                       uiEnergies, threadVars, workerVars, slotVars,
                       analysisInputQueue, energyMutex, queueMutex>>

NextGraph == BuildGraphCall

SpecGraph == InitGraph /\ [][NextGraph]_vars

(***************************************************************************)
(* The output stage on its own: the sample, the parameters, the energies   *)
(* and the reverb's output are drawn in the initial state.                 *)
(***************************************************************************)
\* input samples, |sample| <= 1
MixSamples == {-1000, 0, 1000}

\* settings of a 0..1 parameter (liveliness, dryLevel, gain)
MixLevels == {0, 500, 1000}

\* energy vectors: none yet, all zero, normalised ones, and all ones
MixEnergies ==
  {<<>>,
   <<<<0, 1>>, <<0, 1>>, <<0, 1>>>>,
   <<<<1, 1>>, <<0, 1>>, <<0, 1>>>>,
   <<<<1, 2>>, <<1, 2>>, <<0, 1>>>>,
   <<<<0, 1>>, <<1, 3>>, <<2, 3>>>>,
   <<<<1, 1>>, <<1, 1>>, <<1, 1>>>>}

\* samples the reverbs return for the block, one per cluster
ReverbSamples == {-4000, 0, 4000}

MixInputs ==
  {in \in [processor : {"async", "sync"}, x : MixSamples, bypass : BOOLEAN,
           level : MixLevels, gain : MixLevels, energies : MixEnergies,
           temp : [1..NumClusters -> ReverbSamples]] :
     in.processor = "sync" => Len(in.energies) = NumClusters}

InitMix ==
  /\ AnalyzerNew(HopSize)
  /\ MembersInit("none")
  /\ NoClusterCall
  /\ mixIn \in MixInputs
  /\ mixOut = <<>>
  /\ mixPc = "entry"
  /\ NoUpdateCall
  /\ NoLoopCall

\* the mixing loop of processBlock for one sample
MixCall ==
  /\ mixPc = "entry"
  /\ mixOut' = IF mixIn.processor = "async"
               THEN MixAsync(mixIn.x, mixIn.bypass, mixIn.level, mixIn.gain,
                             mixIn.energies, mixIn.temp)
               ELSE MixSync(mixIn.x, mixIn.level, mixIn.energies, mixIn.temp)
  /\ mixPc' = "mixed"
  /\ UNCHANGED <<mixIn, streamVars, fifoBuffer, fifoFill, frequencyDomainBuffer,
                 latestMagnitudes, hopSize, framesDone, pushed, pushes,
                 hopOnly, anPc, dirtyReset, rebuilt, updateVars, loopVars>>
  /\ AnalyzerOnly

NextMix == MixCall

SpecMix == InitMix /\ [][NextMix]_vars

(***************************************************************************)
(* The per-cluster loop of processBlock on its own.  A unit's output for   *)
(* the block is any buffer of the shape of its input.                      *)
(***************************************************************************)
LoopBlocks ==
  {<<<<1000>>>>, <<<<-1000, 1000>>>>, <<<<1000>>, <<0>>>>}

\* what juce::dsp::Reverb may leave in a buffer of the shape of input
ReverbOutputs(input) ==
  [1..Len(input) -> [1..Len(input[1]) -> ReverbSamples]]

LoopInputs ==
  {in \in [processor : {"async", "sync"}, buffer : LoopBlocks,
           bypass : BOOLEAN, energies : MixEnergies] :
     in.processor = "sync" =>
       Len(in.energies) = NumClusters /\ ~in.bypass}

LoopOnly ==
  UNCHANGED <<fifoBuffer, fifoFill, frequencyDomainBuffer, latestMagnitudes,
              hopSize, framesDone, pushed, pushes, hopOnly, anPc, dirtyReset,
              rebuilt, streamVars, mixIn, mixOut, mixPc, updateVars,
              clusterVars, edges, lifeVars, hostPc, blocks, energyVars,
              bankVars, completeVectors, uiEnergies, threadVars, workerVars,
              slotVars, analysisInputQueue, energyMutex, queueMutex>>

InitLoop ==
  /\ AnalyzerNew(HopSize)
  /\ MembersInit("none")
  /\ NoClusterCall
  /\ NoMixCall
  /\ NoUpdateCall
  /\ loopIn \in LoopInputs
  /\ NoBuffers
  /\ loopPc = "entry"

\* dryBuffer, wetBuffer (cleared) and tempBuffer are made from the block
LoopPrepare ==
  /\ loopPc = "entry"
  /\ dryBuffer' = MakeCopyOf(loopIn.buffer)
  /\ wetBuffer' = Cleared(MakeCopyOf(loopIn.buffer))
  /\ tempBuffer' = MakeCopyOf(loopIn.buffer)
  /\ loopPc' = "loop"
  /\ UNCHANGED <<loopIn, loopI, fedIn, processedOut>>
  /\ LoopOnly

\* one pass of the loop: copy, process in place, accumulate
LoopCluster ==
  /\ loopPc = "loop" /\ ~loopIn.bypass /\ loopI < NumClusters
  /\ LET handed == MakeCopyOf(dryBuffer)
          weight == IF loopIn.processor = "async"
                    THEN EnergyOrZero(loopIn.energies, loopI)
                    ELSE loopIn.energies[loopI + 1]
     IN  \E out \in ReverbOutputs(handed) :
           /\ tempBuffer' = out
           /\ wetBuffer' = AccumulateWet(wetBuffer, weight, out)
           /\ fedIn' = Append(fedIn, handed)
           /\ processedOut' = Append(processedOut, out)
  /\ loopI' = loopI + 1
  /\ loopPc' = IF loopI + 1 = NumClusters THEN "done" ELSE "loop"
  /\ UNCHANGED <<loopIn, dryBuffer>>
  /\ LoopOnly

\* bypass: the wet buffer is the dry one
LoopBypass ==
  /\ loopPc = "loop" /\ loopIn.bypass
  /\ wetBuffer' = MakeCopyOf(dryBuffer)
  /\ loopPc' = "done"
  /\ UNCHANGED <<loopIn, dryBuffer, tempBuffer, loopI, fedIn, processedOut>>
  /\ LoopOnly

NextLoop == LoopPrepare \/ LoopCluster \/ LoopBypass

SpecLoop == InitLoop /\ [][NextLoop]_vars

(***************************************************************************)
(* The reverb bank on its own: built, then updated and run with arguments  *)
(* drawn from inside and outside [0, 1].                                   *)
(***************************************************************************)
UpdateValues == {<<-1, 2>>, <<0, 1>>, <<1, 3>>, <<1, 1>>, <<3, 2>>}

UpdateEnergies ==
  {<<>>, <<<<1, 3>>, <<3, 2>>>>, <<<<0, 1>>, <<1, 1>>, <<-1, 2>>>>,
   <<<<1, 3>>, <<1, 3>>, <<1, 3>>>>, <<<<3, 2>>, <<-1, 2>>, <<1, 1>>>>}

\* what a step of the bank on its own leaves alone
BankOnly ==
  UNCHANGED <<fifoBuffer, fifoFill, frequencyDomainBuffer, latestMagnitudes,
              hopSize, framesDone, pushed, pushes, hopOnly, anPc, dirtyReset,
              rebuilt, streamVars, mixIn, mixOut, mixPc, loopVars,
              clusterVars, edges,
              lifeVars, hostPc, blocks, energyVars, completeVectors,
              uiEnergies, threadVars, workerVars, slotVars,
              analysisInputQueue, energyMutex, queueMutex>>

InitBank ==
  /\ AnalyzerInit(HopSize)
  /\ MembersInit("none")
  /\ NoClusterCall

\* the bank is built as processBlock builds it
BankResizeCall ==
  /\ NeedsRebuild(communityReverbs)
  /\ communityReverbs' = RebuildBank(nextUnitId)
  /\ nextUnitId' = nextUnitId + NumClusters
  /\ UNCHANGED updateVars
  /\ BankOnly

\* updateParameters on every unit, as processBlock calls it
BankUpdateCall ==
  /\ ~NeedsRebuild(communityReverbs)
  /\ \E ce \in UpdateEnergies, expand \in BOOLEAN,
        intensity \in UpdateValues :
       /\ communityReverbs' =
            UpdateBank(communityReverbs, ce, expand, intensity)
       /\ upArgs' =
            [energies |-> ce, expand |-> expand, intensity |-> intensity]
  /\ bankBefore' = communityReverbs
  /\ bankPc' = "updated"
  /\ UNCHANGED nextUnitId
  /\ BankOnly

\* every unit processes a block
BankProcessCall ==
  /\ ~NeedsRebuild(communityReverbs)
  /\ communityReverbs' = ProcessBank(communityReverbs)
  /\ bankPc' = "processed"
  /\ UNCHANGED <<nextUnitId, bankBefore, upArgs>>
  /\ BankOnly

NextBank == BankResizeCall \/ BankUpdateCall \/ BankProcessCall

SpecBank == InitBank /\ [][NextBank]_vars

(***************************************************************************)
(* clusterNodes on its own: the inputs are drawn in the initial state.     *)
(***************************************************************************)
InitCluster ==
  /\ \E ms \in MagnitudeVectors(MaxBins, Magnitudes) :
       nodes = BuildNodes(ms, 1)
  /\ kArg \in -1..MaxK
  /\ maxIterArg \in {-1, 0, 1, 2, DefaultMaxIterations}
  /\ centroids = <<>>
  /\ assignments = <<>>
  /\ changed = FALSE
  /\ iterations = 0
  /\ clPc = "entry"
  /\ reseeded = FALSE
  /\ NoProcessor

NextCluster ==
  \/ ClusterEnter /\ UNCHANGED pipelineVars
  \/ ClusterIterate /\ UNCHANGED pipelineVars
  \/ ClusterReturn /\ UNCHANGED pipelineVars

SpecCluster == InitCluster /\ [][NextCluster]_vars

(***************************************************************************)
(* C1: for n > 0 and k > 0 and any maxIterations, clusterNodes returns a   *)
(* vector of exactly n entries, each a cluster id in [0, k), whether the   *)
(* loop ended by convergence or at the iteration cap, reseeding included.  *)
(***************************************************************************)
C1_AssignmentInRange ==
  (clPc = "returned" /\ Len(nodes) > 0 /\ kArg > 0) =>
     /\ Len(assignments) = Len(nodes)
     /\ \A i \in 1..Len(assignments) :
          assignments[i] >= 0 /\ assignments[i] < kArg

\* a call with k <= n in which a cluster emptied and was reseeded, and
\* which returned with the last cluster in use
C1_Witness ==
  /\ clPc = "returned" /\ kArg > 1 /\ kArg <= Len(nodes)
  /\ reseeded
  /\ \E i \in 1..Len(assignments) : assignments[i] = kArg - 1

(***************************************************************************)
(* Vocabulary of the processor properties.                                 *)
(***************************************************************************)
\* every element of s is the same
Uniform(s) == \A i, j \in 1..Len(s) : s[i] = s[j]

\* the worker lambda is between its start and its return
WorkerRunning == wPc \notin {"none", "exited"}

\* k entries, none negative, summing to 1 or all zero
ValidEnergies(v) ==
  /\ Len(v) = NumClusters
  /\ \A c \in 1..Len(v) : v[c][1] >= 0 /\ v[c][2] > 0
  /\ \/ RatSum(v) = <<1, 1>>
     \/ \A c \in 1..Len(v) : v[c] = <<0, 1>>

\* the units of the bank, by identity
UnitIds(bank) == [i \in 1..Len(bank) |-> bank[i].id]

(***************************************************************************)
(* C2: in asynchronous mode the vector processBlock adopts is the one it   *)
(* already held (slot still empty) or exactly one complete vector stored   *)
(* by the worker, never a mixture of two stores, and successive calls      *)
(* never adopt an earlier publication than one already adopted.            *)
(***************************************************************************)
C2_AdoptsOneCompleteVector ==
  /\ [](mode = "async" /\ hostPc # "pb_copy" => Uniform(ceStamps))
  /\ []((mode = "async" /\ hostPc = "pb_unlock") =>
          IF latestClusterEnergies = <<>>
          THEN adopted = 0 /\ clusterEnergies = <<>>
          ELSE /\ adopted = latestStamp
               /\ clusterEnergies = latestClusterEnergies
               /\ \A i \in 1..Len(ceStamps) : ceStamps[i] = adopted)
  /\ [][lastAdopted' >= lastAdopted]_vars

\* a second block adopts the worker's second store, a non-silent vector,
\* after the first block adopted the first store
C2_Witness ==
  /\ mode = "async" /\ hostPc = "pb_unlock"
  /\ adopted = 2 /\ blocks = 1
  /\ \E c \in 1..Len(clusterEnergies) : RatPos(clusterEnergies[c])

(***************************************************************************)
(* C3: no worker is running at the moment prepareToPlay has reset the      *)
(* analyzer and is about to start a worker.                                *)
(***************************************************************************)
C3_NoWorkerAtPrepare ==
  (mode = "async" /\ hostPc = "prep_start") => ~WorkerRunning

(***************************************************************************)
(* C4: no reachable state overwrites or destroys a still-joinable worker   *)
(* thread handle.                                                          *)
(***************************************************************************)
C4_NeverClobbersJoinable == ~clobbered

(***************************************************************************)
(* C5: the input queue has a capacity: it never holds as many frames as    *)
(* the host has made processBlock calls in a run.                          *)
(***************************************************************************)
C5_QueueBelowCalls == Len(analysisInputQueue) < MaxBlocks

(***************************************************************************)
(* C6: after releaseResources followed by prepareToPlay the worker never   *)
(* analyzes a frame pushed before the restart, and processBlock never      *)
(* adopts a vector computed from such a frame.                             *)
(***************************************************************************)
C6_NoStaleAcrossRestart ==
  /\ (mode = "async" /\ wPc = "analyze") =>
        inputBuffer.epoch >= restartEpoch
  /\ (mode = "async" /\ hostPc = "pb_unlock" /\ adopted > 0) =>
        adoptedEpoch >= restartEpoch

(***************************************************************************)
(* C7: every vector the editor's timer reads is one that a processBlock    *)
(* call left complete at its return (or the initial empty vector), or is   *)
(* at least a well-formed normalised vector.                               *)
(***************************************************************************)
C7_UiSeesCompleteVector ==
  uiEnergies \in completeVectors \/ ValidEnergies(uiEnergies)

(***************************************************************************)
(* C8: every vector the pipeline produces (the one the worker stores, and  *)
(* clusterEnergies after the synchronous normalisation) has k entries,     *)
(* none negative, summing to 1 or all zero; means 2, 2, 4 become 1/4, 1/4, *)
(* 1/2.                                                                    *)
(***************************************************************************)
C8_ProducedEnergiesValid ==
  /\ wPc \in {"lock", "store"} => ValidEnergies(newEnergies)
  /\ latestClusterEnergies # <<>> => ValidEnergies(latestClusterEnergies)
  /\ (mode = "sync" /\ hostPc \in {"pb_resize", "pb_mix"}) =>
        ValidEnergies(clusterEnergies)
  /\ NormalizeEnergies(<<<<2, 1>>, <<2, 1>>, <<4, 1>>>>) =
        <<<<1, 4>>, <<1, 4>>, <<1, 2>>>>

\* the second synchronous block has normalised a vector with two clusters
\* of different positive energy
C8_Witness ==
  /\ mode = "sync" /\ hostPc = "pb_resize" /\ blocks = 1
  /\ \E c, d \in 1..Len(clusterEnergies) :
       /\ RatPos(clusterEnergies[c]) /\ RatPos(clusterEnergies[d])
       /\ clusterEnergies[c] # clusterEnergies[d]

(***************************************************************************)
(* C9: in synchronous mode the vector a processBlock call computes is the  *)
(* normalised per-cluster mean of the current nodes under the current      *)
(* assignment, whatever the previous block left in clusterEnergies.        *)
(***************************************************************************)
C9_EnergiesFromCurrentBlockOnly ==
  (mode = "sync" /\ hostPc = "pb_resize") =>
     clusterEnergies = FreshEnergies(nodes, assignments, NumClusters)

(***************************************************************************)
(* C10: the bank holds exactly k units whenever parameters are pushed to   *)
(* it and after every processBlock call; it is rebuilt only when its size  *)
(* differs from k, so once populated the same units persist.               *)
(***************************************************************************)
C10_BankHoldsKUnits ==
  /\ [](hostPc = "pb_mix" => Len(communityReverbs) = NumClusters)
  /\ [](blocks > 0 => Len(communityReverbs) = NumClusters)
  /\ [][Len(communityReverbs) = NumClusters =>
          UnitIds(communityReverbs') = UnitIds(communityReverbs)]_vars

\* two blocks processed: the units built in the first are still the bank,
\* with parameters pushed to them
C10_Witness ==
  /\ blocks = 2 /\ hostPc = "idle"
  /\ UnitIds(communityReverbs) = <<0, 1, 2>>
  /\ \E i \in 1..Len(communityReverbs) :
       communityReverbs[i].roomSize # <<1, 2>>

(***************************************************************************)
(* C11: from a freshly reset analyzer with 0 < hopSize <= fftSize, after T *)
(* samples pushed in any number of calls of any sizes the number of        *)
(* completed frames is 0 if T < fftSize and 1 + floor((T - fftSize) /      *)
(* hopSize) otherwise, however the stream was split into calls.            *)
(***************************************************************************)
C11_FrameCount ==
  mode = "none" =>
    framesDone = IF pushed < FftSize THEN 0
                 ELSE 1 + (pushed - FftSize) \div hopSize

\* one call, the only one since the reset, completed several frames
C11_Witness ==
  /\ mode = "none" /\ anPc = "push"
  /\ pushes = 1 /\ framesDone >= 2 /\ hopSize < FftSize

(***************************************************************************)
(* C12 as stated: pushing exactly hopSize samples per call into a freshly  *)
(* reset analyzer with hopSize = fftSize / 2 completes one new frame every *)
(* two pushes.                                                             *)
(***************************************************************************)
C12_OneFramePerTwoPushes ==
  (mode = "none" /\ hopOnly /\ hopSize = HopSize) =>
     framesDone = pushes \div 2

(***************************************************************************)
(* C12 amended: pushing exactly hopSize samples per call into a freshly    *)
(* reset analyzer with hopSize = fftSize / 2 completes no frame at the     *)
(* first push and exactly one new frame at every push from the second on.  *)
(***************************************************************************)
C12_OneFramePerPushAfterFirst ==
  (mode = "none" /\ hopOnly /\ hopSize = HopSize) =>
     framesDone = IF pushes = 0 THEN 0 ELSE pushes - 1

\* three pushes of hopSize samples have completed two frames
C12_Witness ==
  /\ mode = "none" /\ hopOnly /\ hopSize = HopSize
  /\ pushes = 3 /\ framesDone = 2

(***************************************************************************)
(* C13: reset() returns the analyzer to its cold state whatever happened   *)
(* before: fill count 0, buffers zero, latest magnitudes empty, the same   *)
(* frames from any later input as a newly constructed analyzer with the    *)
(* same hop; a second reset() changes nothing.                             *)
(***************************************************************************)
C13_ResetIsCold ==
  (mode = "none" /\ anPc = "reset") =>
     /\ fifoFill = 0
     /\ fifoBuffer = Zeros(FftSize)
     /\ frequencyDomainBuffer = Zeros(2 * FftSize)
     /\ latestMagnitudes = <<>>
     /\ TheAnalyzer = NewAnalyzer(hopSize)
     /\ reset(TheAnalyzer) = TheAnalyzer
     /\ \A input \in PushInputs :
          PushSamples(TheAnalyzer, input) =
            PushSamples(NewAnalyzer(hopSize), input)

\* a reset of an analyzer with a part-filled FIFO of non-zero samples and a
\* frame's magnitudes
C13_Witness == mode = "none" /\ anPc = "reset" /\ dirtyReset

(***************************************************************************)
(* Vocabulary of the graph properties.                                     *)
(***************************************************************************)
\* the graph has been built by a call on its own
GraphBuilt == mode = "none" /\ sampleRate > 0

\* the h-th harmonic pair of node i, numbered j = 1, 2, ... in the order
\* i = 1, 2, ... and h = 2, 3, 4
HarmonicPair(j) ==
  LET i == 1 + (j - 1) \div 3
      h == 2 + ((j - 1) % 3)
  IN  <<i, i * h>>

\* the endpoints the edges must have, in order, for n nodes
ExpectedPairs(n) ==
  [i \in 1..(IF n = 0 THEN 0 ELSE n - 1) |-> <<i - 1, i>>]
  \o SelectSeq([j \in 1..(IF n = 0 THEN 0 ELSE 3 * (n - 1)) |->
                  HarmonicPair(j)],
               LAMBDA pr : pr[2] < n)

\* the number of neighbor edges of n nodes
NeighborCount(n) == IF n = 0 THEN 0 ELSE n - 1

(***************************************************************************)
(* C14: buildGraph is a pure rebuild: the nodes and edges after a call are *)
(* those the same call yields on an empty graph, whatever the graph held   *)
(* before, so identical inputs give identical node and edge sequences.     *)
(***************************************************************************)
C14_PureRebuild ==
  GraphBuilt =>
    Graph(nodes, edges) =
      buildGraph(Graph(<<>>, <<>>), latestMagnitudes, sampleRate, FftSize)

\* a call with other arguments on a graph that held nodes and edges
C14_Witness ==
  /\ GraphBuilt /\ rebuilt
  /\ Len(nodes) >= 2 /\ edges # <<>>

(***************************************************************************)
(* C15: one node per magnitude (index i, frequency i x sampleRate /        *)
(* fftSize, magnitude magnitudes[i]); edges in the order neighbor edges    *)
(* (i, i+1) ascending, then per node i >= 1 ascending the harmonic edges   *)
(* (i, round(i h)) for h = 2, 3, 4, each only if the target is < n; node 0 *)
(* has no harmonic edge and every endpoint is a node index.                *)
(***************************************************************************)
C15_NodesAndEdgeOrder ==
  GraphBuilt =>
    /\ Len(nodes) = Len(latestMagnitudes)
    /\ \A i \in 1..Len(nodes) :
         /\ nodes[i].index = i - 1
         /\ nodes[i].frequency = (i - 1) * (sampleRate \div FftSize)
         /\ nodes[i].magnitude = latestMagnitudes[i]
    /\ [e \in 1..Len(edges) |-> <<edges[e].nodeA, edges[e].nodeB>>] =
         ExpectedPairs(Len(nodes))
    /\ \A e \in 1..Len(edges) :
         /\ edges[e].nodeA >= 0 /\ edges[e].nodeA < Len(nodes)
         /\ edges[e].nodeB >= 0 /\ edges[e].nodeB < Len(nodes)
         /\ e > NeighborCount(Len(nodes)) => edges[e].nodeA >= 1

\* five nodes: four neighbor edges, then (1,2) (1,3) (1,4) (2,4)
C15_Witness ==
  /\ GraphBuilt /\ Len(nodes) = 5 /\ sampleRate = 8
  /\ Len(edges) = 8
  /\ <<edges[5].nodeA, edges[5].nodeB>> = <<1, 2>>
  /\ <<edges[8].nodeA, edges[8].nodeB>> = <<2, 4>>

(***************************************************************************)
(* C18: the weight of neighbor edge (i, i+1) depends only on the absolute  *)
(* difference of the two magnitudes and is exp(0) = 1 when they are equal, *)
(* so a spectrum of equal values has all neighbor-edge weights 1.          *)
(***************************************************************************)
C18_NeighborWeights ==
  GraphBuilt =>
    /\ \A i \in 1..NeighborCount(Len(nodes)) :
         /\ edges[i].weight =
              ExpNeg(Abs(latestMagnitudes[i] - latestMagnitudes[i + 1]))
         /\ latestMagnitudes[i] = latestMagnitudes[i + 1] =>
              edges[i].weight = 1000
    /\ \A i, j \in 1..NeighborCount(Len(nodes)) :
         Abs(latestMagnitudes[i] - latestMagnitudes[i + 1]) =
           Abs(latestMagnitudes[j] - latestMagnitudes[j + 1])
         => edges[i].weight = edges[j].weight

\* a spectrum of four equal non-zero values
C18_Witness ==
  /\ GraphBuilt /\ Len(nodes) = 4
  /\ \A i \in 1..4 : latestMagnitudes[i] = 2
  /\ \A i \in 1..3 : edges[i].weight = 1000

(***************************************************************************)
(* C16: clusterNodes called with no nodes or with k <= 0 returns at once,  *)
(* without seeding centroids or running an iteration, a vector of length n *)
(* (empty when n = 0) whose entries are all 0.                             *)
(***************************************************************************)
C16_DegenerateReturnsZeros ==
  (mode = "none" /\ clPc # "entry" /\ (Len(nodes) = 0 \/ kArg <= 0)) =>
    /\ clPc = "returned"
    /\ Len(assignments) = Len(nodes)
    /\ \A i \in 1..Len(assignments) : assignments[i] = 0
    /\ centroids = <<>> /\ iterations = 0 /\ ~changed

\* three nodes clustered with k = 0: three zeros come back
C16_Witness ==
  /\ mode = "none" /\ clPc = "returned"
  /\ Len(nodes) = 3 /\ kArg = 0
  /\ assignments = <<0, 0, 0>> /\ iterations = 0

(***************************************************************************)
(* C17: for an input sample with |sample| <= 1, any setting of bypass,     *)
(* liveliness / dry level and gain and any energy vector, the sample       *)
(* processBlock writes after the tanh stage is a finite number in [-1, 1]. *)
(***************************************************************************)
C17_OutputWithinUnit ==
  (mode = "none" /\ mixPc = "mixed") =>
    /\ mixOut.out \in Int
    /\ mixOut.out >= -1000 /\ mixOut.out <= 1000

\* full gain, not bypassed: a mixed sample beyond 4 is written as 1
C17_Witness ==
  /\ mode = "none" /\ mixPc = "mixed"
  /\ mixIn.processor = "async" /\ ~mixIn.bypass /\ mixIn.gain = 1000
  /\ Abs(mixIn.x) = 1000
  /\ mixOut.mixed > 4000 /\ mixOut.out = 1000

(***************************************************************************)
(* Vocabulary of the worker's frame.                                       *)
(***************************************************************************)
\* the worker holds a popped frame
WorkerBusy == {"analyze", "cluster", "lock", "store", "unlock"}

\* the stage that follows a stage of the frame
WorkerNextStage(pc) ==
  CASE pc = "analyze" -> "cluster"
    [] pc = "cluster" -> "lock"
    [] pc = "lock"    -> "store"
    [] pc = "store"   -> "unlock"
    [] pc = "unlock"  -> "test"

(***************************************************************************)
(* C19: no frame is cancelled mid-analysis and no partial result is        *)
(* emitted: once the worker has popped a frame, it goes through analysis,  *)
(* clustering, aggregation with normalisation and the store, in this       *)
(* order, and only then tests the exit flag again; the shared slot changes *)
(* only at the store, to the complete normalised vector of k entries.      *)
(***************************************************************************)
C19_NoCancelNoPartial ==
  [][/\ wPc \in WorkerBusy => wPc' \in {wPc, WorkerNextStage(wPc)}
     /\ latestClusterEnergies' # latestClusterEnergies =>
          /\ wPc = "store" /\ wPc' = "unlock"
          /\ latestClusterEnergies' = newEnergies
          /\ ValidEnergies(latestClusterEnergies')
     /\ (wPc = "store" /\ wPc' = "unlock") =>
          latestClusterEnergies' = newEnergies]_vars

\* the exit flag was raised while a frame was in flight: its result, with
\* energy in it, is in the slot all the same
C19_Witness ==
  /\ mode = "async" /\ wPc = "unlock" /\ threadShouldExit
  /\ latestStamp = stores /\ stores > 0
  /\ ValidEnergies(latestClusterEnergies)
  /\ \E c \in 1..NumClusters : RatPos(latestClusterEnergies[c])

(***************************************************************************)
(* Vocabulary of the locks.                                                *)
(***************************************************************************)
\* the host is inside a processBlock call
InProcessBlock ==
  hostPc \in {"pb_push", "pb_lock", "pb_copy", "pb_unlock", "pb_resize",
              "pb_mix"}

\* the mutex the host is waiting for: none when it can go on
HostWaitsFor ==
  IF hostPc = "pb_lock" /\ ~MutexFree(energyMutex) THEN "energy"
  ELSE "none"

\* the worker's next step needs no mutex another thread holds
WorkerCanStep ==
  \/ wPc \in {"popping", "store", "unlock"}
  \/ wPc \in {"test", "sleep", "analyze", "cluster"}
  \/ wPc = "pop" /\ MutexFree(queueMutex)
  \/ wPc = "lock" /\ MutexFree(energyMutex)

(***************************************************************************)
(* C20: each mutex is held only for one queue operation or one vector copy *)
(* or move: the worker holds the energy mutex only at the store, the host  *)
(* only at the copy, never while mixing; the queue mutex is held only      *)
(* inside push and pop; no thread holds both; and a processBlock call is   *)
(* never stuck: it can step, or it waits for a mutex whose holder can step *)
(* and release it without taking another, also when the slot is empty.     *)
(***************************************************************************)
C20_LocksShortNoDeadlock ==
  mode = "async" =>
    /\ energyMutex = "worker" <=> wPc \in {"store", "unlock"}
    /\ energyMutex = "host" <=> hostPc \in {"pb_copy", "pb_unlock"}
    /\ queueMutex = "worker" <=> wPc = "popping"
    /\ queueMutex = "host" <=> hostPc = "pb_push"
    /\ ~(energyMutex = "worker" /\ queueMutex = "worker")
    /\ ~(energyMutex = "host" /\ queueMutex = "host")
    /\ (InProcessBlock /\ procState = "alive") =>
         \/ HostWaitsFor = "none"
         \/ /\ energyMutex = "worker"
            /\ wPc \in {"store", "unlock"}
            /\ queueMutex # "worker"
    /\ (procState = "alive" /\ wPc \in {"pop", "lock"} /\ ~WorkerCanStep) =>
         \/ wPc = "pop" /\ queueMutex = "host" /\ hostPc = "pb_push"
         \/ wPc = "lock" /\ energyMutex = "host"
                         /\ hostPc \in {"pb_copy", "pb_unlock"}

\* both calls of the run have completed although the running worker has
\* not produced a result
C20_Witness ==
  /\ mode = "async" /\ procState = "alive"
  /\ blocks = MaxBlocks /\ hostPc = "idle"
  /\ stores = 0 /\ latestClusterEnergies = <<>>
  /\ wPc \in {"test", "pop", "sleep", "analyze", "cluster", "lock"}
  /\ analysisThread = "joinable"

(***************************************************************************)
(* Vocabulary of ownership.                                                *)
(***************************************************************************)
\* the members of the analyzer
AnalyzerMembers ==
  <<fifoBuffer, fifoFill, frequencyDomainBuffer, latestMagnitudes>>

(***************************************************************************)
(* C21: ownership is single-writer: while a worker runs, a step of the     *)
(* host thread (one that moves the host's position) changes neither the    *)
(* analyzer, the graph nor the shared slot and never shortens the queue;   *)
(* a step that lengthens the queue is a host step; and a step that is not  *)
(* a host step leaves the reverb bank and clusterEnergies unchanged.       *)
(***************************************************************************)
C21_SingleWriter ==
  [][(mode = "async" /\ WorkerRunning /\ procState = "alive") =>
       /\ hostPc' # hostPc =>
            /\ AnalyzerMembers' = AnalyzerMembers
            /\ <<nodes, edges>>' = <<nodes, edges>>
            /\ latestClusterEnergies' = latestClusterEnergies
            /\ Len(analysisInputQueue') >= Len(analysisInputQueue)
       /\ Len(analysisInputQueue') > Len(analysisInputQueue) =>
            hostPc' # hostPc
       /\ hostPc' = hostPc =>
            /\ communityReverbs' = communityReverbs
            /\ clusterEnergies' = clusterEnergies]_vars

(***************************************************************************)
(* Vocabulary of the aggregation.                                          *)
(***************************************************************************)
\* every entry is a quotient with a non-zero denominator
NoZeroDenominator(v) == \A c \in 1..Len(v) : v[c][2] > 0

\* the clusters without a member node have energy 0
EmptyClustersSilent(v, as) ==
  \A c \in 1..Len(v) : Members(as, c - 1) = {} => v[c] = <<0, 1>>

(***************************************************************************)
(* C22: the aggregation never divides by zero: every energy is a quotient  *)
(* with a non-zero denominator, a cluster without member node has mean 0,  *)
(* and when the means sum to 0 the vector stays all zero, as it does when  *)
(* the graph has no nodes because no frame was completed since the reset.  *)
(***************************************************************************)
C22_NoDivisionByZero ==
  /\ (mode = "async" /\ wPc \in {"lock", "store"}) =>
       /\ NoZeroDenominator(newEnergies)
       /\ EmptyClustersSilent(newEnergies, assignments)
       /\ nodes = <<>> => newEnergies = ZeroEnergies(NumClusters)
       /\ (\A i \in 1..Len(nodes) : nodes[i].magnitude = 0) =>
            newEnergies = ZeroEnergies(NumClusters)
  /\ (mode = "sync" /\ hostPc \in {"s_normalize", "pb_resize"}) =>
       /\ NoZeroDenominator(clusterEnergies)
       /\ EmptyClustersSilent(clusterEnergies, assignments)
       /\ nodes = <<>> => clusterEnergies = ZeroEnergies(NumClusters)

\* the worker aggregates a graph without nodes: the analyzer holds samples
\* but has completed no frame
C22_Witness ==
  /\ mode = "async" /\ wPc = "lock"
  /\ fifoFill > 0 /\ latestMagnitudes = <<>> /\ nodes = <<>>
  /\ newEnergies = ZeroEnergies(NumClusters)

(***************************************************************************)
(* Vocabulary of the frames of a stream.                                   *)
(***************************************************************************)
\* the samples at stream positions [j * hop, j * hop + fftSize)
FrameOfStream(s, j, hop) == SubSeq(s, j * hop + 1, j * hop + FftSize)

\* the transform of a frame of samples
TransformOf(samples) ==
  RealForwardTransform([i \in 1..FftSize |-> samples[i] * Window[i]])

(***************************************************************************)
(* C23: the j-th frame completed after a reset is computed from the pushed *)
(* samples at stream positions [j hopSize, j hopSize + fftSize): the last  *)
(* transform is that of the last such window of the stream, and the FIFO   *)
(* holds, in order, exactly the samples pushed after the start of the next *)
(* window (the overlap first), none dropped, duplicated or reordered.      *)
(***************************************************************************)
C23_FramesAreStreamWindows ==
  (mode = "none" /\ anPc \in {"push", "reset"}) =>
    /\ framesDone >= 1 =>
         frequencyDomainBuffer =
           TransformOf(FrameOfStream(stream, framesDone - 1, hopSize))
    /\ fifoFill = Len(stream) - framesDone * hopSize
    /\ \A i \in 1..fifoFill :
         fifoBuffer[i] = stream[framesDone * hopSize + i]

\* two frames of a stream of six samples at hop 2: the second frame is
\* made of the samples 3..6, the FIFO keeps the samples 5 and 6
C23_Witness ==
  /\ mode = "none" /\ anPc = "push" /\ hopSize = 2
  /\ stream = <<0, 1, 1, 0, 0, 1>> /\ framesDone = 2
  /\ fifoFill = 2 /\ fifoBuffer[1] = 0 /\ fifoBuffer[2] = 1

(***************************************************************************)
(* C24: getLatestMagnitudes() is stable between frame completions: a       *)
(* pushSamples call that completes no frame leaves latestMagnitudes as it  *)
(* was, and a call that completes frames leaves the fftSize/2 magnitudes   *)
(* of the last frame completed in the call.                                *)
(***************************************************************************)
C24_MagnitudesStable ==
  [][(mode = "none" /\ anPc' = "push" /\ pushes' = pushes + 1) =>
       /\ framesDone' = framesDone => latestMagnitudes' = latestMagnitudes
       /\ framesDone' > framesDone =>
            /\ Len(latestMagnitudes') = FftSize \div 2
            /\ latestMagnitudes' =
                 ComputeMagnitudes(
                   TransformOf(FrameOfStream(stream', framesDone' - 1,
                                             hopSize)))]_vars

\* a call that completed no frame has left the magnitudes of the frame
\* before it
C24_Witness ==
  /\ mode = "none" /\ anPc = "push" /\ lastFrames = 0
  /\ framesDone = 1 /\ fifoFill > FftSize - hopSize
  /\ latestMagnitudes = <<4, 2>>

(***************************************************************************)
(* C25: clusterNodes terminates with a best-effort assignment: every pass  *)
(* of the loop starts with changed set and fewer than maxIterations passes *)
(* done and counts one more, so there are at most maxIterations passes     *)
(* (none when maxIterations <= 0); a pass in which no assignment changes   *)
(* is the last; and the call returns the assignment it then holds, also    *)
(* when the cap ends a run whose clusters kept being reseeded.             *)
(***************************************************************************)
C25_LoopBounded ==
  [][mode = "none" =>
       /\ (clPc = "loop" /\ clPc' = "loop") =>
            /\ changed /\ iterations < maxIterArg
            /\ iterations' = iterations + 1
            /\ changed' = (assignments' # assignments)
       /\ (clPc = "loop" /\ clPc' = "returned") =>
            /\ ~changed \/ iterations >= maxIterArg
            /\ assignments' = assignments
            /\ Len(assignments') = Len(nodes)
       /\ iterations' <= (IF maxIterArg > 0 THEN maxIterArg ELSE 0)]_vars

\* the cap ended a run that was still changing after a reseeding
C25_Witness ==
  /\ mode = "none" /\ clPc = "returned"
  /\ maxIterArg = 2 /\ iterations = 2 /\ changed /\ reseeded

(***************************************************************************)
(* C26: in every assignment step each node goes to a centroid of minimum   *)
(* squared distance, the one of lowest index among those at the minimum;   *)
(* with centroid j seeded from nodes[j mod n], when k > n the duplicate    *)
(* centroids j >= n receive no node in the first assignment step.          *)
(***************************************************************************)
C26_NearestLowestIndex ==
  [][(mode = "none" /\ clPc = "loop" /\ clPc' = "loop") =>
       /\ \A i \in 1..Len(nodes) :
            LET a == assignments'[i]
                dist(j) == distanceSquared(nodes[i], centroids[j + 1])
            IN  /\ a \in 0..(kArg - 1)
                /\ \A j \in 0..(kArg - 1) :
                     /\ dist(a) <= dist(j)
                     /\ dist(j) = dist(a) => a <= j
       /\ (iterations = 0 /\ kArg > Len(nodes)) =>
            /\ \A j \in 0..(kArg - 1) :
                 centroids[j + 1] =
                   Centroid(<<nodes[(j % Len(nodes)) + 1].frequency, 1>>,
                            <<nodes[(j % Len(nodes)) + 1].magnitude, 1>>)
            /\ \A i \in 1..Len(nodes) : assignments'[i] < Len(nodes)]_vars

\* three centroids seeded from two different nodes: after the first step
\* the nodes sit in clusters 0 and 1 and cluster 2 is empty
C26_Witness ==
  /\ mode = "none" /\ clPc = "loop" /\ iterations = 1
  /\ kArg = 3 /\ Len(nodes) = 2
  /\ assignments = <<0, 1>> /\ reseeded

\* jlimit(0, 1, v) written out on a value in lowest terms
Clamped(v) == IF v[1] < 0 THEN <<0, 1>> ELSE IF v[1] > v[2] THEN <<1, 1>> ELSE v

\* 0 <= v <= 1
InUnit(v) == v[2] > 0 /\ 0 <= v[1] /\ v[1] <= v[2]

\* 1 - v
OneMinus(v) == <<v[2] - v[1], v[2]>>

\* C27: after updateParameters has run over the bank, every unit's room
\* size is its cluster's average energy clamped to [0, 1] when the flag is
\* set and one minus it clamped otherwise, every unit's wet level is the
\* one intensity clamped, both lie in [0, 1] whatever was passed, and the
\* unit's identity, damping, width, freeze mode, dry level and tail are
\* the ones it had before the call.
C27_UpdateClampsAndKeeps ==
  bankPc = "updated" =>
    /\ Len(communityReverbs) = Len(bankBefore)
    /\ \A i \in 1..Len(communityReverbs) :
         LET unit == communityReverbs[i]
             before == bankBefore[i]
             avgEnergy == EnergyOrZero(upArgs.energies, i - 1)
         IN  /\ unit.roomSize =
                  IF upArgs.expand THEN Clamped(avgEnergy)
                  ELSE Clamped(OneMinus(avgEnergy))
             /\ unit.wetLevel = Clamped(upArgs.intensity)
             /\ InUnit(unit.roomSize) /\ InUnit(unit.wetLevel)
             /\ unit.wetLevel = communityReverbs[1].wetLevel
             /\ unit.id = before.id
             /\ unit.damping = before.damping
             /\ unit.width = before.width
             /\ unit.freezeMode = before.freezeMode
             /\ unit.dryLevel = before.dryLevel
             /\ unit.tail = before.tail

\* a bank that holds tails is updated with an energy above 1, one below 0
\* and an intensity above 1
C27_Witness ==
  /\ bankPc = "updated"
  /\ upArgs.intensity = <<3, 2>>
  /\ upArgs.energies = <<<<3, 2>>, <<-1, 2>>, <<1, 1>>>>
  /\ ~upArgs.expand
  /\ communityReverbs[1].tail
  /\ bankBefore[1].roomSize = <<1, 3>>
  /\ communityReverbs[1].roomSize = <<0, 1>>
  /\ communityReverbs[2].roomSize = <<1, 1>>
\* the weight the claim gives cluster c (counted from 1): its energy, and 0
\* where the vector holds none
ClusterWeight(energies, c) ==
  IF c <= Len(energies) THEN energies[c] ELSE <<0, 1>>

\* sum over the clusters 1..c of weight x processed sample
RECURSIVE WeightedSum(_, _, _, _, _)
WeightedSum(energies, outs, ch, s, c) ==
  IF c = 0 THEN 0
  ELSE WeightedSum(energies, outs, ch, s, c - 1)
       + (ClusterWeight(energies, c)[1] * outs[c][ch][s])
           \div ClusterWeight(energies, c)[2]

\* C28: in the per-cluster loop every unit is handed a copy of the block's
\* dry input, the dry copy stays the block's input, and the wet buffer,
\* silent before the first pass, holds after each pass the sum over the
\* clusters done of energy x processed sample, for every channel and
\* sample; after the last pass that is the sum over all clusters.
C28_WetIsWeightedSum ==
  (loopPc \in {"loop", "done"} /\ ~loopIn.bypass) =>
    /\ dryBuffer = loopIn.buffer
    /\ Len(fedIn) = loopI /\ Len(processedOut) = loopI
    /\ loopPc = "done" <=> loopI = NumClusters
    /\ \A c \in 1..loopI : fedIn[c] = loopIn.buffer
    /\ Len(wetBuffer) = Len(loopIn.buffer)
    /\ \A ch \in 1..Len(wetBuffer) :
         /\ Len(wetBuffer[ch]) = Len(loopIn.buffer[ch])
         /\ \A s \in 1..Len(wetBuffer[ch]) :
              wetBuffer[ch][s] =
                WeightedSum(loopIn.energies, processedOut, ch, s, loopI)

\* two channels, three different unit outputs, two of them weighted
C28_Witness ==
  /\ loopPc = "done" /\ ~loopIn.bypass
  /\ loopIn.buffer = <<<<1000>>, <<0>>>>
  /\ loopIn.energies = <<<<0, 1>>, <<1, 3>>, <<2, 3>>>>
  /\ processedOut =
       <<<<<<4000>>, <<4000>>>>, <<<<-4000>>, <<0>>>>, <<<<4000>>, <<4000>>>>>>
  /\ tempBuffer = <<<<4000>>, <<4000>>>>
  /\ wetBuffer = <<<<1332>>, <<2666>>>>
\* a worker exists, has not returned, and the process has not been ended
WorkerLive == procState = "alive" /\ WorkerRunning

\* frame n waits in the queue
Queued(n) ==
  \E i \in 1..Len(analysisInputQueue) : analysisInputQueue[i].seq = n

\* frames the worker has taken off the queue
PoppedCount == Len(analyzed) + (IF wPc = "analyze" THEN 1 ELSE 0)

\* the queue holds the frames after the popped ones, in the order pushed;
\* the frames analyzed are 1, 2, ... in that order; the stores made are
\* for the frames analyzed, one each, the frame in flight still missing
FifoOnce ==
  /\ \A i \in 1..Len(analysisInputQueue) :
       analysisInputQueue[i].seq = PoppedCount + i
  /\ \A i \in 1..Len(analyzed) : analyzed[i] = i
  /\ wPc = "analyze" => inputBuffer.seq = PoppedCount
  /\ Len(stored) = stores
  /\ \A i \in 1..Len(stored) : stored[i] = i
  /\ Len(stored) =
       Len(analyzed) - (IF wPc \in {"cluster", "lock", "store"} THEN 1 ELSE 0)

\* a pop that finds the queue empty goes to sleep, the sleep goes back to
\* the loop test, and neither touches the slot
SleepsAndPolls ==
  /\ (wPc = "popping" /\ analysisInputQueue = <<>> /\ wPc' # wPc) =>
       /\ wPc' = "sleep"
       /\ UNCHANGED <<slotVars, inputBuffer, analysisInputQueue>>
  /\ (wPc = "sleep" /\ wPc' # wPc /\ procState' = "alive") =>
       /\ wPc' = "test"
       /\ UNCHANGED <<slotVars, inputBuffer, analysisInputQueue>>

\* C29: the queue is first-in first-out and every frame is taken once:
\* the worker analyzes the frames in the order processBlock pushed them,
\* none twice and none skipped, and makes one store per frame; a pop on
\* an empty queue sleeps and polls again without a store; and, the worker
\* being scheduled, a frame in the queue is in the end analyzed and its
\* energies stored, unless the worker returns or the process ends first.
C29_FramesAnalyzedInOrder ==
  /\ []FifoOnce
  /\ [][SleepsAndPolls]_vars
  /\ \A n \in 1..MaxBlocks :
       Queued(n) ~> ((\E i \in 1..Len(stored) : stored[i] = n) \/ ~WorkerLive)

\* two frames were queued together and both are analyzed and stored, the
\* worker still running
C29_Witness ==
  /\ WorkerLive
  /\ stored = <<1, 2>>
  /\ analysisInputQueue = <<>>
  /\ blocks = 2
  /\ wPc = "sleep"
\* the weights the per-cluster loop would use with the energies held now
WeightsNow ==
  [c \in 1..NumClusters |-> EnergyOrZero(clusterEnergies, c - 1)]

\* C30: in the asynchronous processor, as long as the worker has stored
\* nothing, the slot and clusterEnergies are empty; the processBlock step
\* that updates the units and mixes then finds no index below the vector's
\* size, passes average energy 0 to every unit (room size 1, or 0 with the
\* flag set, the same for all), weights every cluster with 0, so that the
\* wet sum is 0 whatever the units return, and leaves clusterEnergies
\* empty.
C30_SilentBeforeFirstStore ==
  /\ []((mode = "async" /\ stores = 0) =>
         (latestClusterEnergies = <<>> /\ clusterEnergies = <<>>))
  /\ [][(mode = "async" /\ stores = 0 /\ hostPc = "pb_mix"
          /\ hostPc' = "idle") =>
           /\ \A i \in 0..(NumClusters - 1) :
                /\ ~(i < Len(clusterEnergies))
                /\ WeightsNow[i + 1] = <<0, 1>>
                /\ communityReverbs'[i + 1].roomSize \in {<<0, 1>>, <<1, 1>>}
                /\ communityReverbs'[i + 1].roomSize =
                     communityReverbs'[1].roomSize
           /\ \A temp \in [1..NumClusters -> ReverbSamples] :
                WetSum(WeightsNow, temp, 0) = 0
           /\ clusterEnergies' = <<>>]_vars

\* two blocks were mixed while the worker was still on its first frame
C30_Witness ==
  /\ mode = "async" /\ stores = 0
  /\ blocks = 2 /\ hostPc = "idle"
  /\ wPc = "store"
  /\ clusterEnergies = <<>>
  /\ \A i \in 1..NumClusters : communityReverbs[i].roomSize = <<1, 1>>
====
